---- MODULE Spec2Model ----
(***************************************************************************)
(* A model of py-wsic: the two-pass assembler (src/asm), the binary object *)
(* record codec (src/common) and the loader (src/sim).                     *)
(*                                                                         *)
(* Text is modelled as sequences of one-character strings, ctypes          *)
(* structures as records holding the bytes of their fields, and Python's   *)
(* None as the empty sequence (a token is never empty).                    *)
(***************************************************************************)
EXTENDS Integers, Sequences, FiniteSets, TLC

(***************************************************************************)
(* Bounds of the model                                                     *)
(***************************************************************************)
MaxBody == 3
MaxShort == 2
MaxRecords == 3

(***************************************************************************)
(* Characters                                                              *)
(***************************************************************************)
UpperChars == <<"A","B","C","D","E","F","G","H","I","J","K","L","M",
                "N","O","P","Q","R","S","T","U","V","W","X","Y","Z">>

DigitChars == <<"0","1","2","3","4","5","6","7","8","9">>

HexChars == <<"0","1","2","3","4","5","6","7","8","9",
              "A","B","C","D","E","F","a","b","c","d","e","f">>

\* the printable ASCII characters in code order, 0x20 first (the grave accent,
\* 0x60, cannot be written in a string here and is spelled GRAVE)
AsciiChars == <<" ","!","\"","#","$","%","&","'","(",")","*","+",",","-",".","/",
                "0","1","2","3","4","5","6","7","8","9",":",";","<","=",">","?",
                "@","A","B","C","D","E","F","G","H","I","J","K","L","M","N","O",
                "P","Q","R","S","T","U","V","W","X","Y","Z","[","\\","]","^","_",
                "GRAVE","a","b","c","d","e","f","g","h","i","j","k","l","m","n","o",
                "p","q","r","s","t","u","v","w","x","y","z","{","|","}","~">>

Range(s) == {s[i] : i \in DOMAIN s}

IndexOf(s, c) == CHOOSE i \in DOMAIN s : s[i] = c

IsUpper(c) == c \in Range(UpperChars)

IsDigit(c) == c \in Range(DigitChars)

IsHex(c) == c \in Range(HexChars)

DigitVal(c) == IndexOf(DigitChars, c) - 1

HexVal(c) == LET i == IndexOf(HexChars, c) IN IF i > 16 THEN i - 7 ELSE i - 1

Ord(c) == IndexOf(AsciiChars, c) + 31

RECURSIVE DecVal(_)
DecVal(s) == IF s = <<>> THEN 0
             ELSE DecVal(SubSeq(s, 1, Len(s) - 1)) * 10 + DigitVal(s[Len(s)])

RECURSIVE HexSeqVal(_)
HexSeqVal(s) == IF s = <<>> THEN 0
                ELSE HexSeqVal(SubSeq(s, 1, Len(s) - 1)) * 16 + HexVal(s[Len(s)])

AllChars(s, P(_)) == \A i \in DOMAIN s : P(s[i])

StartsWith(s, p) == Len(s) >= Len(p) /\ SubSeq(s, 1, Len(p)) = p

EndsWith(s, p) == Len(s) >= Len(p) /\ SubSeq(s, Len(s) - Len(p) + 1, Len(s)) = p

None == <<>>

(***************************************************************************)
(* common/object_program.py: 24-bit integers and records                   *)
(***************************************************************************)
Byte == 0..255

Pow24 == 16777216

\* Int24.from_int / UInt24.from_int store the most significant byte in byte1,
\* the first byte of the structure
BytesOf24(u) == <<(u \div 65536) % 256, (u \div 256) % 256, u % 256>>

Int24_from_int_ok(value) == -8388608 <= value /\ value <= 8388607

Int24_from_int(value) == BytesOf24((value + Pow24) % Pow24)

UInt24_from_int_ok(value) == 0 <= value /\ value <= 16777215

UInt24_from_int(value) == BytesOf24(value)

UInt24_to_int(b) == b[1] * 65536 + b[2] * 256 + b[3]

Int24_to_int(b) == LET v == UInt24_to_int(b) IN IF v >= 8388608 THEN v - Pow24 ELSE v

\* a limit that lets one byte too many into a record
MAX_TEXT_RECORD_SIZE_31 == 30 + 1

MAX_TEXT_RECORD_SIZE == 30

RECURSIVE ljust(_, _, _)
ljust(s, n, fill) == IF Len(s) >= n THEN s ELSE ljust(Append(s, fill), n, fill)

HeaderRecord_create(program_name, starting_address, program_length) ==
    [tag |-> "H",
     program_name |-> ljust(program_name, 6, 0),
     starting_address |-> UInt24_from_int(starting_address),
     program_length |-> UInt24_from_int(program_length)]

TextRecord_create(starting_address, length) ==
    [tag |-> "T",
     starting_address |-> UInt24_from_int(starting_address),
     length |-> length % 256]

EndRecord_create(exec_address) ==
    [tag |-> "E", exec_address |-> UInt24_from_int(exec_address)]

ModificationRecord_create(address, length) ==
    [tag |-> "M", address |-> UInt24_from_int(address), length |-> length % 256]

\* address | 0x8000 on the low 16 bits
BitOr8000(a) == IF (a \div 32768) % 2 = 1 THEN a ELSE a + 32768

\* SICFormatObjectCode.create: _ia is a c_uint16, which keeps the low 16 bits
SICFormatObjectCode_create(opcode, address, indexed) ==
    [tag |-> "code",
     opcode |-> opcode,
     ia |-> IF indexed THEN BitOr8000(address % 65536) ELSE address % 65536]

SIC_indexed(code) == (code.ia \div 32768) % 2 = 1

SIC_address(code) == code.ia % 32768

(***************************************************************************)
(* common/optable.py and asm/directives.py: the names the assembler knows  *)
(***************************************************************************)
OpcodeNames == <<"LDA","LDCH","LDX","LDL","LDS","STA","STCH","STX","STL","STS",
                 "COMP","TIX","ADD","SUB","J","JEQ","JLT","JGT","JSUB","RSUB",
                 "RD","WD","HLT","NOP">>

OpcodeSpell == << <<"L","D","A">>, <<"L","D","C","H">>, <<"L","D","X">>,
                  <<"L","D","L">>, <<"L","D","S">>, <<"S","T","A">>,
                  <<"S","T","C","H">>, <<"S","T","X">>, <<"S","T","L">>,
                  <<"S","T","S">>, <<"C","O","M","P">>, <<"T","I","X">>,
                  <<"A","D","D">>, <<"S","U","B">>, <<"J">>, <<"J","E","Q">>,
                  <<"J","L","T">>, <<"J","G","T">>, <<"J","S","U","B">>,
                  <<"R","S","U","B">>, <<"R","D">>, <<"W","D">>,
                  <<"H","L","T">>, <<"N","O","P">> >>

\* new_code(): opcodes are numbered from 0 in the order of the table
OpcodeOf(name) == IndexOf(OpcodeNames, name) - 1

has_operand(name) == name \notin {"RSUB", "RD", "WD", "HLT", "NOP"}

DirectiveNames == <<"START", "END", "BYTE", "WORD", "RESB", "RESW">>

DirectiveSpell == << <<"S","T","A","R","T">>, <<"E","N","D">>, <<"B","Y","T","E">>,
                     <<"W","O","R","D">>, <<"R","E","S","B">>, <<"R","E","S","W">> >>

NoOp == [kind |-> "none", name |-> ""]

\* determine_instruction: the opcode table first, then the directive table;
\* NoOp stands for the ValueError
determine_instruction(ins_name) ==
    IF ins_name \in Range(OpcodeSpell)
    THEN [kind |-> "opcode", name |-> OpcodeNames[IndexOf(OpcodeSpell, ins_name)]]
    ELSE IF ins_name \in Range(DirectiveSpell)
    THEN [kind |-> "directive", name |-> DirectiveNames[IndexOf(DirectiveSpell, ins_name)]]
    ELSE NoOp

(***************************************************************************)
(* asm/assemble.py: the instruction builder                                *)
(***************************************************************************)
\* what parsed_ctx holds; keys is the set of entries that were stored
EmptyCtx == [keys |-> {}, indexed |-> FALSE, symbol |-> None, program_name |-> None,
             starting_addr |-> 0, exec_addr |-> 0, value |-> <<>>]

Instruction(ins_name, op, locctr, line_number, label, operand) ==
    [instruction_name |-> ins_name, op |-> op, location |-> locctr,
     line_number |-> line_number, label |-> label, operand |-> operand,
     parsed_ctx |-> EmptyCtx]

ParseError == [err |-> TRUE, ins |-> Instruction(None, NoOp, 0, 0, None, None)]

ParseOk(ins) == [err |-> FALSE, ins |-> ins]

\* parse_instruction: one, two or three tokens; anything else is an error
parse_instruction(token, locctr, line_number) ==
    CASE Len(token) = 1 ->
           LET op == determine_instruction(token[1])
           IN IF op = NoOp THEN ParseError
              ELSE ParseOk(Instruction(token[1], op, locctr, line_number, None, None))
      [] Len(token) = 2 ->
           LET ins == determine_instruction(token[1])
               second == determine_instruction(token[2])
           IN IF ins # NoOp
              THEN ParseOk(Instruction(token[1], ins, locctr, line_number, None, token[2]))
              ELSE IF second = NoOp THEN ParseError
              ELSE ParseOk(Instruction(token[2], second, locctr, line_number, token[1], None))
      [] Len(token) = 3 ->
           LET ins == determine_instruction(token[2])
           IN IF ins = NoOp THEN ParseError
              ELSE ParseOk(Instruction(token[2], ins, locctr, line_number, token[1], token[3]))
      [] OTHER -> ParseError

\* a pattern that stops at 5 letters
MatchLabel_5(label) == Len(label) \in 1..5 /\ AllChars(label, IsUpper)

\* re.match(r"^[A-Z]{1,6}$", label)
MatchLabel(label) == Len(label) \in 1..6 /\ AllChars(label, IsUpper)

IndexedSuffix == <<",", "X">>

\* re.match(r"^([A-Z]{1,6})(,X)?$", operand): group 1 and whether group 2 matched
MatchOperand(operand) ==
    IF EndsWith(operand, IndexedSuffix)
    THEN [ok |-> MatchLabel(SubSeq(operand, 1, Len(operand) - 2)),
          symbol |-> SubSeq(operand, 1, Len(operand) - 2), indexed |-> TRUE]
    ELSE [ok |-> MatchLabel(operand), symbol |-> operand, indexed |-> FALSE]

\* re.match(r"^[0-9A-Fa-f]{4}$", operand)
MatchHex4(operand) == Len(operand) = 4 /\ AllChars(operand, IsHex)

\* int(operand): an optional sign and decimal digits
IntOk(operand) ==
    LET body == IF operand # <<>> /\ operand[1] \in {"-", "+"} THEN Tail(operand) ELSE operand
    IN body # <<>> /\ AllChars(body, IsDigit)

IntVal(operand) ==
    IF operand[1] = "-" THEN 0 - DecVal(Tail(operand))
    ELSE IF operand[1] = "+" THEN DecVal(Tail(operand))
    ELSE DecVal(operand)

HexPrefix == <<"0", "x">>

WordError == [err |-> TRUE, value |-> <<>>]

\* parse_word_operand: 0xHHHHHH, digits followed by U, or a signed decimal
parse_word_operand(operand) ==
    IF StartsWith(operand, HexPrefix) /\ Len(operand) = 8
    THEN IF AllChars(SubSeq(operand, 3, 8), IsHex)
         THEN [err |-> FALSE, value |-> UInt24_from_int(HexSeqVal(SubSeq(operand, 3, 8)))]
         ELSE WordError
    ELSE IF EndsWith(operand, <<"U">>)
    THEN LET digit_part == SubSeq(operand, 1, Len(operand) - 1)
         IN IF digit_part # <<>> /\ AllChars(digit_part, IsDigit)
                /\ UInt24_from_int_ok(DecVal(digit_part))
            THEN [err |-> FALSE, value |-> UInt24_from_int(DecVal(digit_part))]
            ELSE WordError
    ELSE IF IntOk(operand) /\ Int24_from_int_ok(IntVal(operand))
    THEN [err |-> FALSE, value |-> Int24_from_int(IntVal(operand))]
    ELSE WordError

\* parse_byte_operand: 0xHH or c'text'
parse_byte_operand(operand) ==
    IF StartsWith(operand, HexPrefix) /\ Len(operand) = 4
    THEN IF AllChars(SubSeq(operand, 3, 4), IsHex)
         THEN [err |-> FALSE, value |-> <<HexSeqVal(SubSeq(operand, 3, 4))>>]
         ELSE WordError
    ELSE IF StartsWith(operand, <<"c", "'">>) /\ EndsWith(operand, <<"'">>)
    THEN LET char_part == SubSeq(operand, 3, Len(operand) - 1)
         IN [err |-> FALSE, value |-> [i \in 1..Len(char_part) |-> Ord(char_part[i])]]
    ELSE WordError

SizeError == [err |-> TRUE, size |-> 0, ctx |-> EmptyCtx]

SizeOk(size, ctx) == [err |-> FALSE, size |-> size, ctx |-> ctx]

\* the branch of parse_and_determine_size for an opcode
OpcodeSize(instruction) ==
    IF has_operand(instruction.op.name) /\ instruction.operand = None THEN SizeError
    ELSE IF instruction.operand = None THEN SizeOk(3, EmptyCtx)
    ELSE LET m == MatchOperand(instruction.operand)
         IN IF ~m.ok THEN SizeError
            ELSE SizeOk(3, [EmptyCtx EXCEPT
                     !.keys = IF m.indexed THEN {"indexed", "symbol"} ELSE {"symbol"},
                     !.indexed = m.indexed, !.symbol = m.symbol])

\* the branches of parse_and_determine_size for the directives
DirectiveSize(instruction) ==
    LET operand == instruction.operand
    IN CASE instruction.op.name = "START" ->
              IF instruction.label = None \/ operand = None \/ ~MatchHex4(operand)
              THEN SizeError
              ELSE SizeOk(0, [EmptyCtx EXCEPT !.keys = {"program_name", "starting_addr"},
                                  !.program_name = instruction.label,
                                  !.starting_addr = HexSeqVal(operand)])
         [] instruction.op.name = "END" ->
              IF operand = None
              THEN SizeOk(0, [EmptyCtx EXCEPT !.keys = {"exec_addr"}, !.exec_addr = 0])
              ELSE IF ~MatchHex4(operand) THEN SizeError
              ELSE SizeOk(0, [EmptyCtx EXCEPT !.keys = {"exec_addr"},
                                  !.exec_addr = HexSeqVal(operand)])
         [] instruction.op.name \in {"RESB", "RESW"} ->
              IF operand = None \/ ~IntOk(operand) THEN SizeError
              ELSE SizeOk(IntVal(operand) * (IF instruction.op.name = "RESB" THEN 1 ELSE 3),
                          EmptyCtx)
         [] instruction.op.name = "WORD" ->
              IF operand = None \/ parse_word_operand(operand).err THEN SizeError
              ELSE SizeOk(3, [EmptyCtx EXCEPT !.keys = {"value"},
                                  !.value = parse_word_operand(operand).value])
         [] instruction.op.name = "BYTE" ->
              IF operand = None \/ parse_byte_operand(operand).err THEN SizeError
              ELSE LET value == parse_byte_operand(operand).value
                   IN IF ~(1 <= Len(value) /\ Len(value) <= 30) THEN SizeError
                      ELSE SizeOk(Len(value), [EmptyCtx EXCEPT !.keys = {"value"},
                                                   !.value = value])
         [] OTHER -> SizeError

\* parse_and_determine_size: the label check, then the size and the parsed
\* context of the instruction
parse_and_determine_size(instruction) ==
    IF instruction.label # None /\ ~MatchLabel(instruction.label) THEN SizeError
    ELSE IF instruction.op.kind = "opcode" THEN OpcodeSize(instruction)
    ELSE DirectiveSize(instruction)

(***************************************************************************)
(* asm/assemble.py: the tokenizer                                          *)
(***************************************************************************)
IsSpace(c) == c \in {" ", "\t"}

RECURSIVE lstrip(_)
lstrip(s) == IF s # <<>> /\ IsSpace(s[1]) THEN lstrip(Tail(s)) ELSE s

RECURSIVE rstrip(_)
rstrip(s) == IF s # <<>> /\ IsSpace(s[Len(s)]) THEN rstrip(SubSeq(s, 1, Len(s) - 1)) ELSE s

strip(s) == lstrip(rstrip(s))

\* line.partition("#")[0]: the text before the first #
RECURSIVE BeforeHash(_)
BeforeHash(s) == IF s = <<>> \/ s[1] = "#" THEN <<>>
                 ELSE <<s[1]>> \o BeforeHash(Tail(s))

\* the length of the first run of non-blank characters
RECURSIVE WordLen(_)
WordLen(s) == IF s = <<>> \/ IsSpace(s[1]) THEN 0 ELSE 1 + WordLen(Tail(s))

\* line.split(maxsplit=n): at most n + 1 fields, the last one is the rest
RECURSIVE split(_, _)
split(line, maxsplit) ==
    LET s == lstrip(line)
        n == WordLen(s)
    IN IF s = <<>> THEN <<>>
       ELSE IF maxsplit = 0 THEN <<s>>
       ELSE <<SubSeq(s, 1, n)>> \o split(SubSeq(s, n + 1, Len(s)), maxsplit - 1)

Skipped == [skip |-> TRUE, tokens |-> <<>>]

\* tokenize, for one line: whether the line is dropped, and its tokens
tokenize(line) ==
    IF line = <<>> \/ StartsWith(rstrip(line), <<"#">>) THEN Skipped
    ELSE LET tokens == split(BeforeHash(line), 2)
             stripped == [i \in DOMAIN tokens |-> strip(tokens[i])]
         IN [skip |-> FALSE, tokens |-> SelectSeq(stripped, LAMBDA t : t # <<>>)]

(***************************************************************************)
(* asm/create_object_program.py: grouping and emission                     *)
(***************************************************************************)
IsReserve(ins) == ins.op.kind = "directive" /\ ins.op.name \in {"RESB", "RESW"}

\* the bytes an instruction adds to a text record; -1 for a directive that
\* has none (START, END), on which the generator raises
InsLength(ins) ==
    IF ins.op.kind = "directive" /\ ins.op.name = "BYTE" THEN Len(ins.parsed_ctx.value)
    ELSE IF ins.op.kind = "directive" /\ ins.op.name = "WORD" THEN 3
    ELSE IF ins.op.kind = "opcode" THEN 3
    ELSE -1

GenState(i, chunk, length) == [i |-> i, chunk |-> chunk, length |-> length]

\* a test that closes a record as soon as it is full
overflow_after_ins_full(length, ins_length) ==
    length + ins_length >= MAX_TEXT_RECORD_SIZE

\* overflow_after_ins: the instruction would bring the chunk above the limit
overflow_after_ins(length, ins_length) ==
    length + ins_length > MAX_TEXT_RECORD_SIZE

GenResult(kind, chunk, length, next) ==
    [kind |-> kind, chunk |-> chunk, length |-> length, next |-> next]

\* group_instructions_for_text_record, run from the generator state
\* (i, chunk, length) to its next yield ("yield"), its end ("stop") or its
\* ValueError ("error"); next is the state the generator resumes in
RECURSIVE GenNext(_, _, _, _)
GenNext(body, i, chunk, length) ==
    IF i > Len(body)
    THEN IF chunk # <<>>
         THEN GenResult("yield", chunk, length, GenState(i, <<>>, 0))
         ELSE GenResult("stop", <<>>, 0, GenState(i, <<>>, 0))
    ELSE IF IsReserve(body[i])
    THEN IF chunk # <<>>
         THEN GenResult("yield", chunk, length, GenState(i + 1, <<>>, 0))
         ELSE GenNext(body, i + 1, chunk, length)
    ELSE IF InsLength(body[i]) < 0
    THEN GenResult("error", <<>>, 0, GenState(i, chunk, length))
    ELSE IF overflow_after_ins(length, InsLength(body[i]))
    THEN GenResult("yield", chunk, length,
                   GenState(i + 1, <<body[i]>>, InsLength(body[i])))
    ELSE GenNext(body, i + 1, Append(chunk, body[i]), length + InsLength(body[i]))

EmitResult(err, items, mods) == [err |-> err, items |-> items, mods |-> mods]

\* the symbol an opcode instruction refers to: parsed_ctx.get("symbol", None)
SymbolOf(ins) == IF "symbol" \in ins.parsed_ctx.keys THEN ins.parsed_ctx.symbol ELSE None

\* parsed_ctx.get("indexed", False)
IndexedOf(ins) == IF "indexed" \in ins.parsed_ctx.keys THEN ins.parsed_ctx.indexed ELSE FALSE

\* a lookup that encodes a missing symbol as address 0 instead of raising
Resolve_default0(ins, st) ==
    IF SymbolOf(ins) = None \/ SymbolOf(ins) \notin DOMAIN st
    THEN [err |-> FALSE, address |-> 0]
    ELSE [err |-> FALSE, address |-> st[SymbolOf(ins)]]

\* a lookup as a one-pass assembler would do it: a label that lies behind the
\* instruction is not known yet and is encoded as 0
Resolve_onepass(ins, st) ==
    IF SymbolOf(ins) = None THEN [err |-> FALSE, address |-> 0]
    ELSE IF SymbolOf(ins) \notin DOMAIN st THEN [err |-> TRUE, address |-> 0]
    ELSE [err |-> FALSE,
          address |-> IF st[SymbolOf(ins)] > ins.location THEN 0 ELSE st[SymbolOf(ins)]]

\* the lookup an opcode instruction with a symbol goes through: a symbol that
\* is not in the table raises (err), otherwise its entry is the address; an
\* instruction without a symbol gets address 0
Resolve(ins, st) ==
    IF SymbolOf(ins) = None THEN [err |-> FALSE, address |-> 0]
    ELSE IF SymbolOf(ins) \notin DOMAIN st THEN [err |-> TRUE, address |-> 0]
    ELSE [err |-> FALSE, address |-> st[SymbolOf(ins)]]

\* a modification record that points at the opcode byte
ModificationAddress_opcode(ins) == ins.location

\* the address of the modification record of an instruction: +1 to skip the
\* opcode
ModificationAddress(ins) == ins.location + 1

\* the inner loop of create_object_program over the instructions of one group:
\* the payload items and the modification records it appends
RECURSIVE EmitItems(_, _, _, _)
EmitItems(group, st, items, mods) ==
    IF group = <<>> THEN EmitResult(FALSE, items, mods)
    ELSE LET ins == Head(group)
         IN IF ins.op.kind = "directive" /\ ins.op.name = "BYTE"
            THEN EmitItems(Tail(group), st,
                           Append(items, [tag |-> "bytes", data |-> ins.parsed_ctx.value]), mods)
            ELSE IF ins.op.kind = "directive" /\ ins.op.name = "WORD"
            THEN EmitItems(Tail(group), st,
                           Append(items, [tag |-> "word", data |-> ins.parsed_ctx.value]), mods)
            ELSE IF ins.op.kind # "opcode" THEN EmitResult(TRUE, items, mods)
            ELSE IF Resolve(ins, st).err THEN EmitResult(TRUE, items, mods)
            ELSE IF SymbolOf(ins) # None /\ ~UInt24_from_int_ok(ModificationAddress(ins))
            THEN EmitResult(TRUE, items, mods)
            ELSE EmitItems(Tail(group), st,
                     Append(items, SICFormatObjectCode_create(OpcodeOf(ins.op.name),
                                       Resolve(ins, st).address, IndexedOf(ins))),
                     IF SymbolOf(ins) # None
                     THEN Append(mods, ModificationRecord_create(ModificationAddress(ins), 2))
                     ELSE mods)

\* program_name.encode("ascii")
EncodeAscii(text) == [i \in 1..Len(text) |-> Ord(text[i])]

(***************************************************************************)
(* Source programs                                                         *)
(***************************************************************************)
RECURSIVE Join(_)
Join(tokens) == IF Len(tokens) = 1 THEN tokens[1]
                ELSE tokens[1] \o <<" ">> \o Join(Tail(tokens))

RECURSIVE Repeat(_, _)
Repeat(c, n) == IF n = 0 THEN <<>> ELSE <<c>> \o Repeat(c, n - 1)

tTEST == <<"T","E","S","T">>
tFIRST == <<"F","I","R","S","T">>
tLOOP == <<"L","O","O","P">>
tSTART == <<"S","T","A","R","T">>
tEND == <<"E","N","D">>
tBYTE == <<"B","Y","T","E">>
tWORD == <<"W","O","R","D">>
tRESB == <<"R","E","S","B">>
tLDCH == <<"L","D","C","H">>
tLDA == <<"L","D","A">>
tWD == <<"W","D">>
tRSUB == <<"R","S","U","B">>
tJ == <<"J">>
tC1 == <<"C","1">>
tC2 == <<"C","2">>
t1000 == <<"1","0","0","0">>

\* the program of src/test.py's docstring
TestProgram == <<Join(<<tTEST, tSTART, t1000>>),
                 Join(<<tFIRST, tLDCH, tC1>>),
                 tWD,
                 Join(<<tLDCH, tC2>>),
                 tWD,
                 tRSUB,
                 Join(<<tC1, tBYTE, <<"c","'","*","'">> >>),
                 Join(<<tC2, tBYTE, <<"c","'","\\","n","'">> >>),
                 Join(<<tEND, tFIRST>>)>>

FirstPool == {Join(<<tTEST, tSTART, t1000>>),
              Join(<<tTEST, tSTART, <<"F","F","F","E">> >>)}

BodyPool == {Join(<<tJ, tLOOP>>),
             Join(<<tLOOP, tRSUB>>),
             Join(<<tFIRST, tLDA, tLOOP \o <<",","X">> >>),
             <<" ">> \o tWD,
             Join(<<tRESB, <<"2">> >>),
             Join(<<tRESB, <<"-","4">> >>),
             Join(<<tBYTE, <<"c","'">> \o Repeat("A", 28) \o <<"'">> >>),
             Join(<<tWORD, <<"6","5","5","3","6">> >>),
             Join(<<tWORD, <<"7","0","0","0","0","0","0","0">> >>)}

LastPool == {tEND, Join(<<tEND, t1000>>), Join(<<tEND, tFIRST>>)}

SeqsUpTo(S, n) == UNION {[1..k -> S] : k \in 0..n}

\* START line, body, END line
ShapedPrograms == {<<f>> \o b \o <<l>> :
                     f \in FirstPool, b \in SeqsUpTo(BodyPool, MaxBody), l \in LastPool}

\* any lines at all
ShortPrograms == SeqsUpTo(FirstPool \cup BodyPool \cup LastPool, MaxShort)

Programs == ShapedPrograms \cup ShortPrograms \cup {TestProgram}

(***************************************************************************)
(* The assembler as a state machine                                        *)
(***************************************************************************)
VARIABLES src, ln, symtab, instructions, starting_addr, locctr, program_length,
          pc, gen, object_program, modification_records, returned

asmVars == <<src, ln, symtab, instructions, starting_addr, locctr, program_length,
             pc, gen, object_program, modification_records, returned>>

\* program_iter: the records written, the buffer left, what was yielded
VARIABLES units, buffer, yielded, cpc

codecVars == <<units, buffer, yielded, cpc>>

\* load_program and its caller: the object file, the memory, the locals of the
\* call in progress, the bases to load at and the values returned so far
VARIABLES image, memory, data, header_record, end_record, exec_address,
          terminal_address, start_location, lpc, bases, loads

loadVars == <<image, memory, data, header_record, end_record, exec_address,
              terminal_address, start_location, lpc, bases, loads>>

\* sim/__main__.py: where main is, the bytes the program has written to the
\* console, the registers, and the characters waiting on the standard input
VARIABLES spc, console, registers, stdin

simVars == <<spc, console, registers, stdin>>

vars == <<asmVars, codecVars, loadVars, simVars>>

\* no record stream is being decoded
IdleCodec == units = <<>> /\ buffer = <<>> /\ yielded = <<>> /\ cpc = "off"

\* no object file, a memory of zeros, no call of load_program
IdleLoad ==
    /\ image = <<>> /\ memory = <<>> /\ data = <<>>
    /\ header_record = <<>> /\ end_record = <<>>
    /\ exec_address = 0 /\ terminal_address = 0 /\ start_location = 0
    /\ lpc = "idle" /\ bases = <<>> /\ loads = <<>>

\* the simulator has not been started
IdleSim == spc = "off" /\ console = <<>> /\ registers = <<>> /\ stdin = <<>>

\* the state at the call of assemble_program: parse_and_create_symtab starts
\* with an empty table, no instruction and both counters at 0
AsmStart ==
    /\ ln = 0
    /\ symtab = <<>>
    /\ instructions = <<>>
    /\ starting_addr = 0
    /\ locctr = 0
    /\ program_length = 0
    /\ pc = "pass1"
    /\ gen = GenState(1, <<>>, 0)
    /\ object_program = <<>>
    /\ modification_records = <<>>
    /\ returned = <<>>

\* assemble_program is called with a source text
InitAsm ==
    /\ src \in Programs
    /\ AsmStart
    /\ IdleCodec /\ IdleLoad /\ IdleSim

AsmFail ==
    /\ pc' = "error"
    /\ UNCHANGED <<src, symtab, instructions, starting_addr, locctr, program_length,
                   gen, object_program, modification_records, returned>>

\* a table that keeps the first location of a label
SymtabPut_first(st, label, location) ==
    [x \in DOMAIN st \cup {label} |-> IF x \in DOMAIN st THEN st[x] ELSE location]

\* symtab[label] = location
SymtabPut(st, label, location) ==
    [x \in DOMAIN st \cup {label} |-> IF x = label THEN location ELSE st[x]]

\* a pass in which START adds its size like any other instruction
NextLocctr_add(instruction, size, counter) == counter + size

\* the location counter after an instruction of the given size
NextLocctr(instruction, size, counter) ==
    IF instruction.op = [kind |-> "directive", name |-> "START"]
    THEN instruction.parsed_ctx.starting_addr
    ELSE counter + size

\* a pass that forgets to record the operand of START
NextStartingAddr_unset(instruction, addr) == addr

\* the starting address after an instruction
NextStartingAddr(instruction, addr) ==
    IF instruction.op = [kind |-> "directive", name |-> "START"]
    THEN instruction.parsed_ctx.starting_addr
    ELSE addr

\* one iteration of the loop of parse_and_create_symtab, fed by tokenize
Pass1Line ==
    /\ pc = "pass1"
    /\ UNCHANGED <<codecVars, loadVars, simVars>>
    /\ ln < Len(src)
    /\ ln' = ln + 1
    /\ LET t == tokenize(src[ln + 1])
           p == parse_instruction(t.tokens, locctr, ln + 1)
           sz == parse_and_determine_size(p.ins)
           instruction == [p.ins EXCEPT !.parsed_ctx = sz.ctx]
       IN IF t.skip
          THEN UNCHANGED <<src, symtab, instructions, starting_addr, locctr,
                           program_length, pc, gen, object_program,
                           modification_records, returned>>
          ELSE IF p.err \/ sz.err THEN AsmFail
          ELSE /\ locctr' = NextLocctr(instruction, sz.size, locctr)
               /\ starting_addr' = NextStartingAddr(instruction, starting_addr)
               /\ instructions' = Append(instructions, instruction)
               /\ symtab' = IF instruction.label # None
                            THEN SymtabPut(symtab, instruction.label, instruction.location)
                            ELSE symtab
               /\ UNCHANGED <<src, program_length, pc, gen, object_program,
                              modification_records, returned>>

\* the return of parse_and_create_symtab
Pass1Return ==
    /\ pc = "pass1"
    /\ UNCHANGED <<codecVars, loadVars, simVars>>
    /\ ln = Len(src)
    /\ program_length' = locctr - starting_addr
    /\ pc' = "pass2"
    /\ UNCHANGED <<src, ln, symtab, instructions, starting_addr, locctr, gen,
                   object_program, modification_records, returned>>

IsDirective(ins, name) == ins.op = [kind |-> "directive", name |-> name]

\* a check that lets a program of START and END alone through
TooFew_2(ins) == Len(ins) < 2

\* len(instructions) < 3
TooFew(ins) == Len(ins) < 3

\* create_object_program up to the header record
CreateHeader ==
    /\ pc = "pass2"
    /\ UNCHANGED <<codecVars, loadVars, simVars>>
    /\ UNCHANGED ln
    /\ IF TooFew(instructions) THEN AsmFail
       ELSE IF ~IsDirective(instructions[1], "START")
               \/ ~IsDirective(instructions[Len(instructions)], "END")
       THEN AsmFail
       ELSE IF ~UInt24_from_int_ok(instructions[1].parsed_ctx.starting_addr)
               \/ ~UInt24_from_int_ok(program_length)
       THEN AsmFail
       ELSE /\ object_program' =
                 <<HeaderRecord_create(EncodeAscii(instructions[1].parsed_ctx.program_name),
                                       instructions[1].parsed_ctx.starting_addr,
                                       program_length)>>
            /\ pc' = "text"
            /\ UNCHANGED <<src, symtab, instructions, starting_addr, locctr,
                           program_length, gen, modification_records, returned>>

\* instructions[1:-1]
Body(ins) == SubSeq(ins, 2, Len(ins) - 1)

\* one iteration of the loop over the groups in create_object_program
EmitTextGroup ==
    /\ pc = "text"
    /\ UNCHANGED <<codecVars, loadVars, simVars>>
    /\ LET g == GenNext(Body(instructions), gen.i, gen.chunk, gen.length)
           e == EmitItems(g.chunk, symtab, <<>>, <<>>)
       IN /\ g.kind # "stop"
          /\ UNCHANGED ln
          /\ IF g.kind = "error" \/ g.chunk = <<>> THEN AsmFail
             ELSE IF ~UInt24_from_int_ok(g.chunk[1].location) \/ e.err THEN AsmFail
             ELSE /\ object_program' =
                       Append(object_program,
                              TextRecord_create(g.chunk[1].location, g.length)) \o e.items
                  /\ modification_records' = modification_records \o e.mods
                  /\ gen' = g.next
                  /\ UNCHANGED <<src, symtab, instructions, starting_addr, locctr,
                                 program_length, pc, returned>>

\* an ending that appends the end record before the modification records
FinishObjectProgram_endFirst ==
    /\ pc = "text"
    /\ UNCHANGED <<codecVars, loadVars, simVars>>
    /\ GenNext(Body(instructions), gen.i, gen.chunk, gen.length).kind = "stop"
    /\ UNCHANGED ln
    /\ LET executing_address == instructions[Len(instructions)].parsed_ctx.exec_addr
       IN IF ~UInt24_from_int_ok(executing_address) THEN AsmFail
          ELSE /\ object_program' = Append(object_program, EndRecord_create(executing_address))
                                      \o modification_records
               /\ returned' = object_program'
               /\ pc' = "done"
               /\ UNCHANGED <<src, symtab, instructions, starting_addr, locctr,
                              program_length, gen, modification_records>>

\* the end of create_object_program: the modification records, the end
\* record, and the return
FinishObjectProgram ==
    /\ pc = "text"
    /\ UNCHANGED <<codecVars, loadVars, simVars>>
    /\ GenNext(Body(instructions), gen.i, gen.chunk, gen.length).kind = "stop"
    /\ UNCHANGED ln
    /\ LET executing_address == instructions[Len(instructions)].parsed_ctx.exec_addr
       IN IF ~UInt24_from_int_ok(executing_address) THEN AsmFail
          ELSE /\ object_program' = (object_program \o modification_records)
                                      \o <<EndRecord_create(executing_address)>>
               /\ returned' = object_program'
               /\ pc' = "done"
               /\ UNCHANGED <<src, symtab, instructions, starting_addr, locctr,
                              program_length, gen, modification_records>>

NextAsm == Pass1Line \/ Pass1Return \/ CreateHeader \/ EmitTextGroup \/ FinishObjectProgram

SpecAsm == InitAsm /\ [][NextAsm]_vars

(***************************************************************************)
(* Properties of the assembler                                             *)
(***************************************************************************)
PayloadTags == {"code", "bytes", "word"}

IsPayload(item) == item.tag \in PayloadTags

\* the number of bytes an item of the object program is written as
ItemSize(item) == IF item.tag = "code" THEN 3 ELSE Len(item.data)

\* the payload items of an object program, in order
PayloadItems(rs) == SelectSeq(rs, IsPayload)

\* the positions, in the instruction list, of the instructions between the
\* first and the last one that have object code, in order
EmittingIdx(ins) ==
    SelectSeq([i \in 1..Len(ins) |-> i],
              LAMBDA i : 1 < i /\ i < Len(ins) /\ InsLength(ins[i]) >= 0)

\* for every payload item of an object program, the number of Text records
\* that come before it
RECURSIVE GroupOfItems(_, _, _)
GroupOfItems(rs, i, g) ==
    IF i > Len(rs) THEN <<>>
    ELSE IF rs[i].tag = "T" THEN GroupOfItems(rs, i + 1, g + 1)
    ELSE IF IsPayload(rs[i]) THEN <<g>> \o GroupOfItems(rs, i + 1, g)
    ELSE GroupOfItems(rs, i + 1, g)

\* the bytes of the payload items that directly follow position i
RECURSIVE PayloadAfter(_, _)
PayloadAfter(rs, i) ==
    IF i + 1 > Len(rs) \/ ~IsPayload(rs[i + 1]) THEN 0
    ELSE ItemSize(rs[i + 1]) + PayloadAfter(rs, i + 1)

\* the last line that defines a label
LastDef(ins, label) ==
    CHOOSE j \in DOMAIN ins :
        ins[j].label = label /\ \A k \in DOMAIN ins : k > j => ins[k].label # label

Defined(ins, label) == \E j \in DOMAIN ins : ins[j].label = label

\* C1: an accepted program is returned as one Header, then groups of one Text
\* record directly followed by its payload items, then the Modification
\* records, then one End; Header and End occur nowhere else and no
\* Modification record comes before a Text record.
C1_RecordOrder ==
    pc = "done" =>
        /\ Len(returned) >= 2
        /\ \A i \in DOMAIN returned :
             /\ returned[i].tag = "H" <=> i = 1
             /\ returned[i].tag = "E" <=> i = Len(returned)
             /\ returned[i].tag = "M" =>
                  \A j \in DOMAIN returned : j > i => returned[j].tag \in {"M", "E"}
             /\ IsPayload(returned[i]) =>
                  i > 1 /\ (returned[i - 1].tag = "T" \/ IsPayload(returned[i - 1]))
             /\ returned[i].tag = "T" =>
                  /\ i < Len(returned) /\ IsPayload(returned[i + 1])
                  /\ PayloadAfter(returned, i) = returned[i].length

\* an accepted program with two Text records and a Modification record
C1_Witness ==
    /\ pc = "done"
    /\ \E i, j, k \in DOMAIN returned :
         i < j /\ j < k /\ returned[i].tag = "T" /\ returned[j].tag = "T"
         /\ returned[k].tag = "M"

\* C2: every Text record of an accepted program declares between 1 and 30
\* bytes, and two instructions with a RESB or RESW between them never have
\* their bytes in the same Text record.
C2_TextRecordBounds ==
    pc = "done" =>
        LET idx == EmittingIdx(instructions)
            grp == GroupOfItems(returned, 1, 0)
        IN /\ \A i \in DOMAIN returned :
                returned[i].tag = "T" => returned[i].length \in 1..30
           /\ Len(grp) = Len(idx)
           /\ \A a, b \in DOMAIN idx :
                (a < b /\ \E r \in DOMAIN instructions :
                            idx[a] < r /\ r < idx[b] /\ IsReserve(instructions[r]))
                => grp[a] # grp[b]

\* an accepted program in which a reservation ends a record of 3 bytes
C2_Witness ==
    /\ pc = "done"
    /\ \E i, j \in DOMAIN returned :
         /\ i < j /\ returned[i].tag = "T" /\ returned[j].tag = "T"
         /\ returned[i].length = 3
    /\ \E a, r, b \in DOMAIN instructions :
         /\ a < r /\ r < b /\ IsReserve(instructions[r])
         /\ InsLength(instructions[a]) = 3 /\ InsLength(instructions[b]) >= 0

\* C3: a reference to a label, also to one defined on a later line, is encoded
\* with the location of the line that defines the label, and nothing is
\* emitted before the location pass has consumed every line and entered every
\* label in the symbol table.
C3_ForwardReference ==
    /\ object_program # <<>> =>
         /\ pc # "pass1" /\ ln = Len(src)
         /\ \A j \in DOMAIN instructions :
              instructions[j].label # None =>
                 /\ instructions[j].label \in DOMAIN symtab
                 /\ symtab[instructions[j].label] =
                      instructions[LastDef(instructions, instructions[j].label)].location
    /\ pc = "done" =>
         LET idx == EmittingIdx(instructions)
             items == PayloadItems(returned)
         IN \A k \in DOMAIN idx :
              LET ins == instructions[idx[k]]
              IN (ins.op.kind = "opcode" /\ SymbolOf(ins) # None) =>
                   /\ Defined(instructions, SymbolOf(ins))
                   /\ items[k] = SICFormatObjectCode_create(
                                    OpcodeOf(ins.op.name),
                                    instructions[LastDef(instructions, SymbolOf(ins))].location,
                                    IndexedOf(ins))

\* an accepted program with a reference to a label of a later line
C3_Witness ==
    /\ pc = "done"
    /\ \E i, j \in DOMAIN instructions :
         /\ i < j /\ instructions[i].op.kind = "opcode"
         /\ SymbolOf(instructions[i]) # None
         /\ instructions[j].label = SymbolOf(instructions[i])
         /\ j = LastDef(instructions, instructions[j].label)
         /\ instructions[j].location > 0

\* an opcode instruction of the program whose symbol is not in the table
UndefinedRef(i) ==
    /\ i \in DOMAIN instructions
    /\ instructions[i].op.kind = "opcode"
    /\ SymbolOf(instructions[i]) # None
    /\ SymbolOf(instructions[i]) \notin DOMAIN symtab

\* the instructions with object code that come before instruction i
EmittingBefore(i) == {j \in 2..(i - 1) : InsLength(instructions[j]) >= 0}

\* C4: once the location pass is over, a program with a reference to a symbol
\* that is not in the symbol table is never returned, and no instruction word
\* is appended for that reference.
C4_UndefinedSymbol ==
    \A i \in DOMAIN instructions :
        (pc # "pass1" /\ UndefinedRef(i)) =>
            /\ pc # "done"
            /\ returned = <<>>
            /\ Len(PayloadItems(object_program)) <= Cardinality(EmittingBefore(i))

\* the emission fails on an undefined symbol after a Text record was emitted
C4_Witness ==
    /\ pc = "error"
    /\ \E i \in DOMAIN instructions : UndefinedRef(i)
    /\ \E k \in DOMAIN object_program : object_program[k].tag = "T"

\* the little-endian two's-complement 24-bit representation of n
LittleEndian24(n) ==
    LET u == (n + Pow24) % Pow24
    IN <<u % 256, (u \div 256) % 256, (u \div 65536) % 256>>

\* a WORD directive with a signed decimal operand
IsDecimalWord(ins) ==
    /\ IsDirective(ins, "WORD")
    /\ ins.operand # None
    /\ IntOk(ins.operand)

\* C7: a WORD with a signed decimal operand n of the 24-bit range emits the 3
\* bytes of n in little-endian two's complement, and one outside of the range
\* makes the assembly fail.
C7_WordLittleEndian ==
    /\ \A i \in DOMAIN instructions :
         IsDecimalWord(instructions[i]) => Int24_from_int_ok(IntVal(instructions[i].operand))
    /\ pc = "done" =>
         LET idx == EmittingIdx(instructions)
             items == PayloadItems(returned)
         IN \A k \in DOMAIN idx :
              IsDecimalWord(instructions[idx[k]]) =>
                 items[k].data = LittleEndian24(IntVal(instructions[idx[k]].operand))

\* the tokens of the line that was consumed last
LastTokens == IF ln = 0 THEN <<>> ELSE tokenize(src[ln]).tokens

\* the line consumed last is an END whose operand is a label of the program
EndOfLabel ==
    /\ Len(LastTokens) = 2
    /\ LastTokens[1] = tEND
    /\ LastTokens[2] \in DOMAIN symtab

\* C9: an END whose operand is a label defined in the program is accepted, and
\* the End record holds the address of that label.
C9_EndLabel ==
    EndOfLabel =>
        /\ pc # "error"
        /\ pc = "done" =>
             UInt24_to_int(returned[Len(returned)].exec_address) = symtab[LastTokens[2]]

\* C10: the program length of an accepted program is the location of its END
\* minus the operand of its START, and the Header record holds that length.
C10_ProgramLength ==
    pc = "done" =>
        /\ program_length = instructions[Len(instructions)].location
                              - instructions[1].parsed_ctx.starting_addr
        /\ UInt24_to_int(returned[1].program_length) = program_length
        /\ UInt24_to_int(returned[1].starting_address)
             = instructions[1].parsed_ctx.starting_addr

\* an accepted program with a length that is not 0
C10_Witness ==
    /\ pc = "done"
    /\ program_length > 0
    /\ instructions[1].parsed_ctx.starting_addr > 0

(***************************************************************************)
(* The object file: common/object_program.py as bytes, and the decoder of  *)
(* common/program_iter.py and sim/loader.py                                *)
(***************************************************************************)
Min(a, b) == IF a < b THEN a ELSE b

Max(a, b) == IF a > b THEN a ELSE b

\* s[:n]
Take(s, n) == SubSeq(s, 1, Min(n, Len(s)))

\* s[n:]
Drop(s, n) == SubSeq(s, Min(n, Len(s)) + 1, Len(s))

\* the record classes in the order parse_record tries them
RecordTags == <<"H", "T", "E", "M">>

\* sizes with an End record of the size of a Text record
RecordSize_same(tag) == CASE tag = "H" -> 13 [] tag = "T" -> 5 [] tag = "E" -> 5 [] tag = "M" -> 5

\* ctypes.sizeof of each record class (packed)
RecordSize(tag) == CASE tag = "H" -> 13 [] tag = "T" -> 5 [] tag = "E" -> 4 [] tag = "M" -> 5

\* the bytes a record is written as
RecordBytes(rec) ==
    CASE rec.tag = "H" -> <<0>> \o rec.program_name \o rec.starting_address \o rec.program_length
      [] rec.tag = "T" -> <<1>> \o rec.starting_address \o <<rec.length>>
      [] rec.tag = "E" -> <<2>> \o rec.exec_address
      [] rec.tag = "M" -> <<3>> \o rec.address \o <<rec.length>>

\* the bytes f.write(record) writes for an item of an object program; the
\* c_uint16 of an instruction word is little-endian
ItemBytes(item) ==
    CASE item.tag = "code" -> <<item.opcode, item.ia % 256, item.ia \div 256>>
      [] item.tag \in {"bytes", "word"} -> item.data
      [] OTHER -> RecordBytes(item)

RECURSIVE Serialize(_)
Serialize(items) == IF items = <<>> THEN <<>>
                    ELSE ItemBytes(Head(items)) \o Serialize(Tail(items))

\* record.from_buffer_copy(record_data)
DecodeRecord(tag, b) ==
    CASE tag = "H" -> [tag |-> "H", program_name |-> SubSeq(b, 2, 7),
                       starting_address |-> SubSeq(b, 8, 10),
                       program_length |-> SubSeq(b, 11, 13)]
      [] tag = "T" -> [tag |-> "T", starting_address |-> SubSeq(b, 2, 4), length |-> b[5]]
      [] tag = "E" -> [tag |-> "E", exec_address |-> SubSeq(b, 2, 4)]
      [] tag = "M" -> [tag |-> "M", address |-> SubSeq(b, 2, 4), length |-> b[5]]

RecordError == [err |-> TRUE, record |-> [tag |-> "none"], rest |-> <<>>]

\* parse_record: the record at the head of the buffer and the buffer behind
\* it; an unknown first byte, an empty buffer and a buffer shorter than the
\* record raise ValueError
parse_record(buf) ==
    IF buf = <<>> \/ buf[1] \notin 0..3 THEN RecordError
    ELSE LET tag == RecordTags[buf[1] + 1]
         IN IF Len(buf) < RecordSize(tag) THEN RecordError
            ELSE [err |-> FALSE,
                  record |-> DecodeRecord(tag, Take(buf, RecordSize(tag))),
                  rest |-> Drop(buf, RecordSize(tag))]

\* an iteration that does not skip the data of a Text record
SkipPayload_none(record, buf) == buf

\* program_iter after the yield: the data of a Text record is skipped
SkipPayload(record, buf) ==
    IF record.tag = "T" THEN Drop(buf, record.length) ELSE buf

\* a record that is written, with the data that follows it (Text only)
Unit(rec, payload) == [rec |-> rec, data |-> payload]

nTEST01 == <<84, 69, 83, 84, 48, 49>>

nAB == <<65, 66>>

\* the records the streams of the model are made of; 4096 is the start of
\* src/test.py's program, 66051 is 0x010203, 32764 is 0x7FFC, the start of a
\* program of one byte near the end of the memory
UnitPool ==
    {Unit(HeaderRecord_create(nTEST01, 4096, 17), <<>>),
     Unit(HeaderRecord_create(nAB, 0, 66051), <<>>),
     Unit(HeaderRecord_create(nAB, 32764, 1), <<>>),
     Unit(TextRecord_create(4096, 3), <<1, 15, 16>>),
     Unit(TextRecord_create(4111, 1), <<42>>),
     Unit(TextRecord_create(32764, 1), <<65>>),
     Unit(TextRecord_create(66051, 2), <<2, 0>>),
     Unit(TextRecord_create(0, 0), <<>>),
     Unit(ModificationRecord_create(4097, 2), <<>>),
     Unit(ModificationRecord_create(66051, 3), <<>>),
     Unit(EndRecord_create(4096), <<>>),
     Unit(EndRecord_create(66051), <<>>)}

UnitSeqs == SeqsUpTo(UnitPool, MaxRecords)

RECURSIVE SerializeUnits(_)
SerializeUnits(us) ==
    IF us = <<>> THEN <<>>
    ELSE (RecordBytes(us[1].rec) \o us[1].data) \o SerializeUnits(Tail(us))

\* nothing is being assembled
IdleAsm ==
    /\ src = <<>> /\ ln = 0 /\ symtab = <<>> /\ instructions = <<>>
    /\ starting_addr = 0 /\ locctr = 0 /\ program_length = 0 /\ pc = "off"
    /\ gen = GenState(1, <<>>, 0) /\ object_program = <<>>
    /\ modification_records = <<>> /\ returned = <<>>

(***************************************************************************)
(* common/program_iter.py and its consumer asmt.py                         *)
(***************************************************************************)
\* records and the data of the Text records are written to a file, and
\* program_iter is called on the bytes of the file
InitCodec ==
    /\ units \in UnitSeqs
    /\ buffer = SerializeUnits(units)
    /\ yielded = <<>>
    /\ cpc = "iter"
    /\ IdleAsm /\ IdleLoad /\ IdleSim

\* one iteration of program_iter: the consumer gets the record and the buffer
\* behind it, of which it reads the data of a Text record; a ValueError of
\* parse_record ends the iteration
IterNext ==
    /\ cpc = "iter"
    /\ UNCHANGED <<asmVars, loadVars, simVars, units>>
    /\ LET r == parse_record(buffer)
       IN IF r.err
          THEN cpc' = "done" /\ UNCHANGED <<buffer, yielded>>
          ELSE /\ yielded' = Append(yielded,
                                Unit(r.record,
                                     IF r.record.tag = "T"
                                     THEN Take(r.rest, r.record.length) ELSE <<>>))
               /\ buffer' = SkipPayload(r.record, r.rest)
               /\ cpc' = cpc

NextCodec == IterNext

SpecCodec == InitCodec /\ [][NextCodec]_vars

(***************************************************************************)
(* sim/loader.py                                                           *)
(***************************************************************************)
\* the size of the simulator's memory
MemorySize == 32767

\* memory[a:b] = values, as numpy does it: the slice is clipped to the
\* memory, a list of one value is broadcast, and any other list whose length
\* is not the length of the slice raises ValueError
WriteSlice(m, a, b, values) ==
    LET lo == Min(a, MemorySize)
        hi == Max(Min(b, MemorySize), lo)
    IN IF Len(values) = hi - lo
       THEN [err |-> FALSE,
             mem |-> [x \in DOMAIN m \cup lo..(hi - 1) |->
                         IF x \in lo..(hi - 1) THEN values[x - lo + 1] ELSE m[x]]]
       ELSE IF Len(values) = 1
       THEN [err |-> FALSE,
             mem |-> [x \in DOMAIN m \cup lo..(hi - 1) |->
                         IF x \in lo..(hi - 1) THEN values[1] ELSE m[x]]]
       ELSE [err |-> TRUE, mem |-> m]

\* record.program_name: the bytes of the field up to the first NUL
RECURSIVE NameOf(_)
NameOf(b) == IF b = <<>> \/ b[1] = 0 THEN <<>> ELSE <<b[1]>> \o NameOf(Tail(b))

\* record.program_name.decode() raises on a byte that is not ASCII (the
\* names of the model are ASCII)
DecodeOk(name) == \A i \in DOMAIN name : name[i] < 128

LoadFail ==
    /\ lpc' = "error"
    /\ UNCHANGED <<image, memory, data, header_record, end_record, exec_address,
                   terminal_address, start_location, bases, loads>>

\* The caller of load_program in the model of the loader alone: it loads the
\* object file at each of the bases in turn, into the same memory.
LoadCall ==
    /\ spc = "off"
    /\ lpc \in {"idle", "done"}
    /\ Len(loads) < Len(bases)
    /\ start_location' = bases[Len(loads) + 1]
    /\ data' = image
    /\ header_record' = None
    /\ end_record' = None
    /\ exec_address' = 0
    /\ terminal_address' = 0
    /\ lpc' = "load"
    /\ UNCHANGED <<image, memory, bases, loads>>
    /\ UNCHANGED <<asmVars, codecVars, simVars>>

\* a loader that applies a record whether or not a Header came first
HeaderMissing_never(header) == FALSE

\* header_record is None
HeaderMissing(header) == header = None

\* a loop that goes on after the End record until the data is used up
LoopEnds_noBreak(d, end) == d = <<>>

\* the loop of load_program ends when the data is used up (while data) or
\* an End record has been loaded (if end_record: break)
LoopEnds(d, end) == d = <<>> \/ end # None

\* the address the loader reports as the execution address
ExecAddressOf(record, base) == UInt24_to_int(record.exec_address)

\* One iteration of the loop of load_program.  A Modification record never
\* gets through: UInt24.from_buffer_copy raises ValueError on a slice of less
\* than 3 bytes, and on a longer one UInt24(cur_addr).to_bytes() raises
\* AttributeError, since a ctypes structure has no to_bytes.
LoadRecord ==
    /\ lpc = "load"
    /\ ~LoopEnds(data, end_record)
    /\ UNCHANGED <<asmVars, codecVars, simVars>>
    /\ LET r == parse_record(data)
           record == r.record
       IN IF r.err THEN LoadFail
          ELSE CASE record.tag = "H" ->
                 LET starting_address == UInt24_to_int(record.starting_address)
                     length == UInt24_to_int(record.program_length)
                 IN IF ~DecodeOk(NameOf(record.program_name))
                       \/ starting_address + length > MemorySize
                    THEN LoadFail
                    ELSE /\ header_record' = record
                         /\ terminal_address' = start_location + starting_address + length
                         /\ data' = r.rest
                         /\ UNCHANGED <<image, memory, end_record, exec_address,
                                        start_location, lpc, bases, loads>>
            [] record.tag = "T" ->
                 LET starting_address == UInt24_to_int(record.starting_address)
                     w == WriteSlice(memory, start_location + starting_address,
                                     start_location + starting_address + record.length,
                                     Take(r.rest, record.length))
                 IN IF HeaderMissing(header_record) \/ w.err THEN LoadFail
                    ELSE /\ memory' = w.mem
                         /\ data' = Drop(r.rest, record.length)
                         /\ UNCHANGED <<image, header_record, end_record, exec_address,
                                        terminal_address, start_location, lpc, bases, loads>>
            [] record.tag = "E" ->
                 IF HeaderMissing(header_record) THEN LoadFail
                 ELSE /\ exec_address' = ExecAddressOf(record, start_location)
                      /\ end_record' = record
                      /\ data' = r.rest
                      /\ UNCHANGED <<image, memory, header_record, terminal_address,
                                     start_location, lpc, bases, loads>>
            [] record.tag = "M" -> LoadFail

\* an end of load_program that returns without having seen an End record
LoadReturn_noCheck ==
    /\ lpc = "load"
    /\ LoopEnds(data, end_record)
    /\ UNCHANGED <<asmVars, codecVars, simVars>>
    /\ loads' = Append(loads, [exec_address |-> exec_address,
                                terminal_address |-> terminal_address])
    /\ lpc' = "done"
    /\ UNCHANGED <<image, memory, data, header_record, end_record, exec_address,
                   terminal_address, start_location, bases>>

\* the end of load_program: without an End record it raises, otherwise it
\* returns the execution address and the terminal address
LoadReturn ==
    /\ lpc = "load"
    /\ LoopEnds(data, end_record)
    /\ UNCHANGED <<asmVars, codecVars, simVars>>
    /\ IF end_record = None THEN LoadFail
       ELSE /\ loads' = Append(loads, [exec_address |-> exec_address,
                                       terminal_address |-> terminal_address])
            /\ lpc' = "done"
            /\ UNCHANGED <<image, memory, data, header_record, end_record, exec_address,
                           terminal_address, start_location, bases>>

\* the bases of two loads of one file; 6 is where the simulator loads
BasePairs == {<<0, 6>>, <<6, 0>>, <<6, 6>>, <<6, 4096>>}

\* an object file made of records of the pool, to be loaded twice
InitLoad ==
    /\ units \in UnitSeqs
    /\ image = SerializeUnits(units)
    /\ bases \in BasePairs
    /\ memory = <<>> /\ data = <<>>
    /\ header_record = None /\ end_record = None
    /\ exec_address = 0 /\ terminal_address = 0 /\ start_location = 0
    /\ lpc = "idle" /\ loads = <<>>
    /\ buffer = <<>> /\ yielded = <<>> /\ cpc = "off"
    /\ IdleAsm /\ IdleSim

NextLoad == LoadCall \/ LoadRecord \/ LoadReturn

SpecLoad == InitLoad /\ [][NextLoad]_vars

(***************************************************************************)
(* Properties of the codec and of the loader                               *)
(***************************************************************************)
\* the field values of a record, as its accessors give them
FieldsOf(rec) ==
    CASE rec.tag = "H" -> <<NameOf(rec.program_name), UInt24_to_int(rec.starting_address),
                            UInt24_to_int(rec.program_length)>>
      [] rec.tag = "T" -> <<UInt24_to_int(rec.starting_address), rec.length>>
      [] rec.tag = "E" -> <<UInt24_to_int(rec.exec_address)>>
      [] rec.tag = "M" -> <<UInt24_to_int(rec.address), rec.length>>

\* C5: two successful loads of one object file, at base B1 and at base B2,
\* return execution addresses that differ by B2 - B1.
C5_ExecAddressDifference ==
    Len(loads) = 2 =>
        loads[2].exec_address - loads[1].exec_address = bases[2] - bases[1]

\* C6: when the iteration over the written bytes has ended, it has yielded the
\* written records, in their order, with the same field values, and the
\* consumer has seen the data of each Text record.
C6_RoundTrip ==
    cpc = "done" =>
        /\ Len(yielded) = Len(units)
        /\ \A i \in DOMAIN units :
             /\ yielded[i].rec.tag = units[i].rec.tag
             /\ FieldsOf(yielded[i].rec) = FieldsOf(units[i].rec)
             /\ yielded[i].data = units[i].data

\* a stream was decoded in which the data of a Text record begins with the
\* ID of a record class and another record follows it
C6_Witness ==
    /\ cpc = "done"
    /\ \E i \in DOMAIN units :
         /\ i < Len(units)
         /\ units[i].rec.tag = "T"
         /\ units[i].data # <<>>
         /\ units[i].data[1] \in 0..3
         /\ Len(yielded) > i

(***************************************************************************)
(* Assembling, loading and running: asm/__main__.py and sim/__main__.py    *)
(***************************************************************************)
\* the two instruction words the simulator puts at address 0
bootstrap_program ==
    Serialize(<<SICFormatObjectCode_create(OpcodeOf("JSUB"), 0, FALSE),
                SICFormatObjectCode_create(OpcodeOf("HLT"), 0, FALSE)>>)

\* main of the assembler after assemble_program has returned: every item of
\* the object program is written to the output file
WriteObject ==
    /\ pc = "done"
    /\ image' = Serialize(returned)
    /\ pc' = "written"
    /\ UNCHANGED <<src, ln, symtab, instructions, starting_addr, locctr, program_length,
                   gen, object_program, modification_records, returned>>
    /\ UNCHANGED <<memory, data, header_record, end_record, exec_address,
                   terminal_address, start_location, lpc, bases, loads>>
    /\ UNCHANGED <<codecVars, simVars>>

\* main of the simulator up to the call of load_program: the memory is
\* created, the bootstrap program is written to it, and the object file is
\* loaded behind the bootstrap program
SimMainStart ==
    /\ pc = "written"
    /\ spc = "off"
    /\ memory' = WriteSlice(<<>>, 0, Len(bootstrap_program), bootstrap_program).mem
    /\ start_location' = Len(bootstrap_program)
    /\ data' = image
    /\ header_record' = None
    /\ end_record' = None
    /\ exec_address' = 0
    /\ terminal_address' = 0
    /\ lpc' = "load"
    /\ spc' = "loading"
    /\ UNCHANGED <<image, bases, loads, console, registers, stdin>>
    /\ UNCHANGED <<asmVars, codecVars>>

\* main of the simulator after load_program: an exception of load_program
\* ends main; a return gives main a tuple, and exec_address.to_bytes raises
\* AttributeError before the run loop is entered
MainAfterLoad ==
    /\ spc = "loading"
    /\ lpc \in {"done", "error"}
    /\ spc' = "crashed"
    /\ UNCHANGED <<console, registers, stdin>>
    /\ UNCHANGED <<asmVars, codecVars, loadVars>>

\* a source text is assembled; its object file is given to the simulator
InitE2E ==
    /\ src \in Programs
    /\ AsmStart
    /\ IdleCodec /\ IdleLoad /\ IdleSim

NextE2E ==
    \/ Pass1Line \/ Pass1Return \/ CreateHeader \/ EmitTextGroup \/ FinishObjectProgram
    \/ WriteObject \/ SimMainStart \/ LoadRecord \/ LoadReturn \/ MainAfterLoad

SpecE2E == InitE2E /\ [][NextE2E]_vars

\* C8: the program TEST START 1000 / FIRST LDCH C1 / WD / LDCH C2 / WD /
\* RSUB / C1 BYTE c'*' / C2 BYTE c'\n' / END FIRST is assembled, loaded and
\* run without an error at any stage, and when the run has halted the
\* console holds exactly the characters '*' and newline, in that order.
C8_TestProgramOutput ==
    src = TestProgram =>
        /\ pc # "error"
        /\ lpc # "error"
        /\ spc # "crashed"
        /\ spc = "halted" => console = <<Ord("*"), 10>>

(***************************************************************************)
(* Labels: lines that differ in their label                                *)
(***************************************************************************)
\* labels of 1 to 6 uppercase letters, two of them names of operations, and
\* labels of other forms
LabelPool == {<<"A">>, tLOOP, <<"A","B","C","D","E","F">>, tRSUB, tWORD,
              <<"A","B","C","D","E","F","G">>, <<"l","o","o","p">>, tC1,
              <<"A","_","B">>, <<"1">>}

\* what follows the label on a line of the body: each is accepted behind a
\* label of 1 to 6 uppercase letters that is not the name of an operation
RestPool == {tRSUB, Join(<<tLDA, tLOOP>>), Join(<<tBYTE, <<"c","'","A","'">> >>),
             Join(<<tWORD, <<"5">> >>), Join(<<tRESB, <<"2">> >>), tWD}

\* a program of three lines with the label on the START line, on the line of
\* the body, or on the END line
LabelPrograms ==
    {<<Join(<<tTEST, tSTART, t1000>>), Join(<<l, r>>), tEND>> :
        l \in LabelPool, r \in RestPool}
    \cup {<<Join(<<l, tSTART, t1000>>), tRSUB, tEND>> : l \in LabelPool}
    \cup {<<Join(<<tTEST, tSTART, t1000>>), tRSUB, Join(<<l, tEND>>)>> : l \in LabelPool}
    \cup {<<Join(<<tTEST, tSTART, t1000>>), tRSUB, Join(<<l, tEND, t1000>>)>> :
            l \in LabelPool}

InitLabel ==
    /\ src \in LabelPrograms
    /\ AsmStart
    /\ IdleCodec /\ IdleLoad /\ IdleSim

NextLabel == Pass1Line \/ Pass1Return \/ CreateHeader \/ EmitTextGroup \/ FinishObjectProgram

SpecLabel == InitLabel /\ [][NextLabel]_vars

\* a string of 1 to 6 uppercase letters
IsLabelPattern(s) == Len(s) \in 1..6 /\ \A i \in DOMAIN s : s[i] \in Range(UpperChars)

\* the label of a line: the first of three tokens, or the first of two tokens
\* when it is not the name of an operation
LineLabel(tokens) ==
    IF Len(tokens) = 3 THEN tokens[1]
    ELSE IF Len(tokens) = 2 /\ determine_instruction(tokens[1]) = NoOp THEN tokens[1]
    ELSE None

C12_HeaderFirst ==
    [][(lpc = "load" /\ header_record = None /\ data # <<>> /\ data[1] \in {1, 2, 3}) =>
          /\ lpc' = "error"
          /\ memory' = memory
          /\ loads' = loads]_vars

\* a load has failed on a Text record that came before any Header record
C12_Witness ==
    /\ lpc = "error"
    /\ header_record = None
    /\ data # <<>>
    /\ data[1] = 1
    /\ Len(data) > 5

\* the stream has no End record
NoEnd == \A i \in DOMAIN units : units[i].rec.tag # "E"

\* C13: a load of a stream without an End record never returns; when the data
\* is used up the load fails.
C13_NoEndRecord ==
    [][NoEnd =>
          /\ lpc' # "done"
          /\ loads' = <<>>
          /\ (lpc = "load" /\ data = <<>>) => lpc' = "error"]_vars

\* a stream of a Header record and a Text record only has been loaded to its
\* end and the load has failed
C13_Witness ==
    /\ NoEnd
    /\ lpc = "error"
    /\ data = <<>>
    /\ header_record # None
    /\ memory # <<>>

\* the first End record of the stream
FirstEnd == CHOOSE i \in DOMAIN units :
                units[i].rec.tag = "E" /\ \A j \in 1..(i - 1) : units[j].rec.tag # "E"

\* C14: once an End record has been loaded it is the first End record of the
\* stream and everything behind it is still unread; the next step of the
\* loader returns the execution address and the terminal address as they are,
\* without a change to the memory and without an error.
C14_StopAtEnd ==
    [][(lpc = "load" /\ end_record # None) =>
          /\ end_record = units[FirstEnd].rec
          /\ data = SerializeUnits(SubSeq(units, FirstEnd + 1, Len(units)))
          /\ lpc' = "done"
          /\ memory' = memory
          /\ loads' = Append(loads, [exec_address |-> exec_address,
                                     terminal_address |-> terminal_address])]_vars

\* a load has returned with a Modification record unread behind the End record
C14_Witness ==
    /\ lpc = "done"
    /\ data # <<>>
    /\ data[1] = 3

\* the byte of the memory at an address
ByteAt(m, x) == IF x \in DOMAIN m THEN m[x] ELSE 0

\* C19: a Modification record (a, 2) behind a Header record adds the base to
\* the little-endian 16-bit value at base + a, changes no other byte of the
\* memory, and the loader goes on with the next record.
C19_ModificationRelocates ==
    [][(/\ lpc = "load" /\ header_record # None /\ end_record = None
        /\ ~parse_record(data).err
        /\ parse_record(data).record.tag = "M"
        /\ parse_record(data).record.length = 2) =>
          LET r == parse_record(data)
              a == start_location + UInt24_to_int(r.record.address)
              v == ByteAt(memory, a) + 256 * ByteAt(memory, a + 1)
              w == (v + start_location) % 65536
          IN /\ lpc' = "load"
             /\ data' = r.rest
             /\ \A x \in DOMAIN memory \cup DOMAIN memory' \cup {a, a + 1} :
                  ByteAt(memory', x) = IF x = a THEN w % 256
                                       ELSE IF x = a + 1 THEN w \div 256
                                       ELSE ByteAt(memory, x)]_vars

(***************************************************************************)
(* Properties of the emission: modification records                        *)
(***************************************************************************)
\* the symbol an operand names: the operand without a trailing ,X
OperandSymbol(operand) ==
    IF EndsWith(operand, <<",", "X">>) THEN SubSeq(operand, 1, Len(operand) - 2)
    ELSE operand

\* the positions of the opcode instructions that have an operand, in order
OperandIdx(ins) ==
    SelectSeq(EmittingIdx(ins),
              LAMBDA i : ins[i].op.kind = "opcode" /\ ins[i].operand # None)

\* the Modification records of an object program, in order
ModificationsOf(rs) == SelectSeq(rs, LAMBDA r : r.tag = "M")

\* C18: in an accepted program the Modification records are, in source
\* order, one for each opcode instruction with an operand, with the address
\* location + 1 and the length 2; such an instruction is encoded with the
\* symbol-table address of its symbol, and an opcode instruction without an
\* operand is encoded with the address 0.
C18_ModificationRecords ==
    pc = "done" =>
        LET idx == EmittingIdx(instructions)
            items == PayloadItems(returned)
            refs == OperandIdx(instructions)
            mods == ModificationsOf(returned)
        IN /\ Len(mods) = Len(refs)
           /\ \A k \in DOMAIN refs :
                /\ UInt24_to_int(mods[k].address) = instructions[refs[k]].location + 1
                /\ mods[k].length = 2
           /\ \A k \in DOMAIN idx :
                LET ins == instructions[idx[k]]
                IN ins.op.kind = "opcode" =>
                     items[k] =
                        IF ins.operand # None
                        THEN SICFormatObjectCode_create(
                                 OpcodeOf(ins.op.name),
                                 symtab[OperandSymbol(ins.operand)],
                                 EndsWith(ins.operand, <<",", "X">>))
                        ELSE SICFormatObjectCode_create(OpcodeOf(ins.op.name), 0, FALSE)

\* an accepted program with two references and an opcode without an operand
C18_Witness ==
    /\ pc = "done"
    /\ Len(ModificationsOf(returned)) = 2
    /\ \E i \in DOMAIN instructions :
         instructions[i].op.kind = "opcode" /\ instructions[i].operand = None

(***************************************************************************)
(* Comments and blank lines                                                *)
(***************************************************************************)
tComment == <<"#", " ", "c">>

\* lines without an instruction: empty, blank, a comment, an indented comment
BlankPool == {<<>>, <<" ">>, <<"\t", " ">>, tComment, <<" ", " ">> \o tComment,
              <<"\t", "#">>, <<"#">>}

\* lines with an instruction and a comment behind it
CommentedPool == {Join(<<tLOOP, tRSUB, tComment>>), tRSUB \o tComment,
                  <<" ">> \o tWD \o <<"\t">> \o tComment,
                  Join(<<tLOOP, tJ, tLOOP \o <<"#">> \o tLOOP>>)}

\* well-formed programs with one line of BlankPool in them, before, between
\* or behind the instructions
CommentPrograms ==
    LET first == Join(<<tTEST, tSTART, t1000>>)
    IN UNION {{<<b, first, c, tEND>>, <<first, b, c, tEND>>, <<first, c, b, tEND>>,
               <<first, c, tEND, b>>} : b \in BlankPool, c \in CommentedPool}

InitComment ==
    /\ src \in CommentPrograms
    /\ AsmStart
    /\ IdleCodec /\ IdleLoad /\ IdleSim

NextComment == Pass1Line \/ Pass1Return \/ CreateHeader \/ EmitTextGroup \/ FinishObjectProgram

SpecComment == InitComment /\ [][NextComment]_vars

\* the line is empty or blank, or its first non-blank character is #
Droppable(line) ==
    \/ \A i \in DOMAIN line : line[i] \in {" ", "\t"}
    \/ \E i \in DOMAIN line :
         /\ line[i] = "#"
         /\ \A j \in 1..(i - 1) : line[j] \in {" ", "\t"}

\* the lines consumed so far that are not dropped, in order
KeptLines == SelectSeq([k \in 1..ln |-> k], LAMBDA k : ~Droppable(src[k]))

\* C17: the assembly of a well-formed program with blank lines and comment
\* lines does not fail; the instructions are those of the other lines, in
\* order, each built from the tokens of the text before the first # of its
\* line.
C17_DroppedLines ==
    /\ pc # "error"
    /\ Len(instructions) = Len(KeptLines)
    /\ \A j \in DOMAIN instructions :
         LET p == parse_instruction(split(BeforeHash(src[KeptLines[j]]), 2), 0, 0).ins
         IN /\ instructions[j].line_number = KeptLines[j]
            /\ instructions[j].instruction_name = p.instruction_name
            /\ instructions[j].label = p.label
            /\ instructions[j].operand = p.operand

(***************************************************************************)
(* common/optable.py: the effects of the instructions                      *)
(***************************************************************************)
\* memory[a:b]: the slice is clipped to the memory
MemSlice(m, a, b) ==
    LET lo == Min(a, MemorySize)
        hi == Max(Min(b, MemorySize), lo)
    IN [i \in 1..(hi - lo) |-> ByteAt(m, lo + i - 1)]

\* bytes.decode(): whether the bytes are well-formed UTF-8
RECURSIVE Utf8Ok(_)
Utf8Ok(b) ==
    IF b = <<>> THEN TRUE
    ELSE IF b[1] < 128 THEN Utf8Ok(Tail(b))
    ELSE IF b[1] \in 194..223
    THEN Len(b) >= 2 /\ b[2] \in 128..191 /\ Utf8Ok(SubSeq(b, 3, Len(b)))
    ELSE IF b[1] \in 224..239
    THEN /\ Len(b) >= 3
         /\ b[2] \in (IF b[1] = 224 THEN 160..191 ELSE IF b[1] = 237 THEN 128..159
                      ELSE 128..191)
         /\ b[3] \in 128..191
         /\ Utf8Ok(SubSeq(b, 4, Len(b)))
    ELSE IF b[1] \in 240..244
    THEN /\ Len(b) >= 4
         /\ b[2] \in (IF b[1] = 240 THEN 144..191 ELSE IF b[1] = 244 THEN 128..143
                      ELSE 128..191)
         /\ b[3] \in 128..191
         /\ b[4] \in 128..191
         /\ Utf8Ok(SubSeq(b, 5, Len(b)))
    ELSE FALSE

\* what an effect leaves behind: it returned ("ok"), raised KeyboardInterrupt
\* ("halt") or raised another exception ("error")
EffectResult(kind, regs, mem, out, in) ==
    [kind |-> kind, regs |-> regs, mem |-> mem, out |-> out, in |-> in]

\* make_load_effect
load_effect(target_register, lowest_only, regs, mem, in, decoded_address) ==
    LET s == MemSlice(mem, decoded_address,
                      decoded_address + (IF lowest_only THEN 1 ELSE 3))
    IN IF lowest_only
       THEN IF Len(s) < 1 THEN EffectResult("error", regs, mem, <<>>, in)
            ELSE EffectResult("ok", [regs EXCEPT ![target_register] = <<0, 0, s[1]>>],
                              mem, <<>>, in)
       ELSE IF Len(s) < 3 THEN EffectResult("error", regs, mem, <<>>, in)
            ELSE EffectResult("ok", [regs EXCEPT ![target_register] = s], mem, <<>>, in)

\* make_store_effect: the three bytes of the register are assigned to a slice
\* of one byte (lowest_only) or of three bytes
store_effect(target_register, lowest_only, regs, mem, in, decoded_address) ==
    LET w == WriteSlice(mem, decoded_address,
                        decoded_address + (IF lowest_only THEN 1 ELSE 3),
                        regs[target_register])
    IN IF w.err THEN EffectResult("error", regs, mem, <<>>, in)
       ELSE EffectResult("ok", regs, w.mem, <<>>, in)

\* a comparison that reports less for greater and greater for less
compare_effect_swapped(reg, regs, mem, in, decoded_address) ==
    LET s == MemSlice(mem, decoded_address, decoded_address + 3)
        r == UInt24_to_int(regs[reg])
    IN IF Len(s) < 3 THEN EffectResult("error", regs, mem, <<>>, in)
       ELSE EffectResult("ok",
                [regs EXCEPT !["SW"] = UInt24_from_int(
                     IF r = UInt24_to_int(s) THEN 0
                     ELSE IF r < UInt24_to_int(s) THEN 2 ELSE 1)],
                mem, <<>>, in)

\* compare_effect
compare_effect(reg, regs, mem, in, decoded_address) ==
    LET s == MemSlice(mem, decoded_address, decoded_address + 3)
        r == UInt24_to_int(regs[reg])
    IN IF Len(s) < 3 THEN EffectResult("error", regs, mem, <<>>, in)
       ELSE EffectResult("ok",
                [regs EXCEPT !["SW"] = UInt24_from_int(
                     IF r = UInt24_to_int(s) THEN 0
                     ELSE IF r < UInt24_to_int(s) THEN 1 ELSE 2)],
                mem, <<>>, in)

\* tix_effect
tix_effect(regs, mem, in, decoded_address) ==
    LET x == UInt24_to_int(regs["X"]) + 1
    IN IF ~UInt24_from_int_ok(x) THEN EffectResult("error", regs, mem, <<>>, in)
       ELSE compare_effect("X", [regs EXCEPT !["X"] = UInt24_from_int(x)], mem, in,
                           decoded_address)

\* make_arithmetic_effect, for fn(a, b) = a + sign * b
arithmetic_effect(sign, regs, mem, in, decoded_address) ==
    LET s == MemSlice(mem, decoded_address, decoded_address + 3)
        a == UInt24_to_int(regs["A"])
    IN IF Len(s) < 3 THEN EffectResult("error", regs, mem, <<>>, in)
       ELSE LET result == a + sign * Int24_to_int(s)
            IN IF ~Int24_from_int_ok(result) THEN EffectResult("error", regs, mem, <<>>, in)
               ELSE EffectResult("ok", [regs EXCEPT !["A"] = Int24_from_int(result)],
                                 mem, <<>>, in)

\* a jump that lands one instruction behind its target
jump_effect_plus3(cond, regs, mem, in, decoded_address) ==
    IF ~cond THEN EffectResult("ok", regs, mem, <<>>, in)
    ELSE IF ~UInt24_from_int_ok(decoded_address + 3)
    THEN EffectResult("error", regs, mem, <<>>, in)
    ELSE EffectResult("ok", [regs EXCEPT !["PC"] = UInt24_from_int(decoded_address + 3)],
                      mem, <<>>, in)

\* make_jump_effect
jump_effect(cond, regs, mem, in, decoded_address) ==
    IF ~cond THEN EffectResult("ok", regs, mem, <<>>, in)
    ELSE IF ~UInt24_from_int_ok(decoded_address)
    THEN EffectResult("error", regs, mem, <<>>, in)
    ELSE EffectResult("ok", [regs EXCEPT !["PC"] = UInt24_from_int(decoded_address)],
                      mem, <<>>, in)

\* a call that does not save the return address
jsub_effect_nolink(regs, mem, in, decoded_address) ==
    IF ~UInt24_from_int_ok(decoded_address)
    THEN EffectResult("error", regs, mem, <<>>, in)
    ELSE EffectResult("ok", [regs EXCEPT !["PC"] = UInt24_from_int(decoded_address)],
                      mem, <<>>, in)

\* jsub_effect
jsub_effect(regs, mem, in, decoded_address) ==
    LET linked == [regs EXCEPT !["L"] = regs["PC"]]
    IN IF ~UInt24_from_int_ok(decoded_address)
       THEN EffectResult("error", linked, mem, <<>>, in)
       ELSE EffectResult("ok", [linked EXCEPT !["PC"] = UInt24_from_int(decoded_address)],
                         mem, <<>>, in)

\* rsub_effect
rsub_effect(regs, mem, in) ==
    EffectResult("ok", [regs EXCEPT !["PC"] = regs["L"]], mem, <<>>, in)

\* rd_effect; the characters of the standard input are ASCII, given by
\* their codes
rd_effect(regs, mem, in) ==
    IF in = <<>> THEN EffectResult("error", regs, mem, <<>>, in)
    ELSE EffectResult("ok", [regs EXCEPT !["A"] = <<0, 0, Head(in)>>], mem, <<>>, Tail(in))

\* wd_effect: the three bytes of A are decoded and printed
wd_effect(regs, mem, in) ==
    IF ~Utf8Ok(regs["A"]) THEN EffectResult("error", regs, mem, <<>>, in)
    ELSE EffectResult("ok", regs, mem, regs["A"], in)

\* halt_effect
halt_effect(regs, mem, in) == EffectResult("halt", regs, mem, <<>>, in)

\* op.value.effect(option), by the name of the entry of OpcodeTable
Effect(name, regs, mem, in, d) ==
    CASE name = "LDA" -> load_effect("A", FALSE, regs, mem, in, d)
      [] name = "LDCH" -> load_effect("A", TRUE, regs, mem, in, d)
      [] name = "LDX" -> load_effect("X", FALSE, regs, mem, in, d)
      [] name = "LDL" -> load_effect("L", FALSE, regs, mem, in, d)
      [] name = "LDS" -> load_effect("S", FALSE, regs, mem, in, d)
      [] name = "STA" -> store_effect("A", FALSE, regs, mem, in, d)
      [] name = "STCH" -> store_effect("A", TRUE, regs, mem, in, d)
      [] name = "STX" -> store_effect("X", FALSE, regs, mem, in, d)
      [] name = "STL" -> store_effect("L", FALSE, regs, mem, in, d)
      [] name = "STS" -> store_effect("S", FALSE, regs, mem, in, d)
      [] name = "COMP" -> compare_effect("A", regs, mem, in, d)
      [] name = "TIX" -> tix_effect(regs, mem, in, d)
      [] name = "ADD" -> arithmetic_effect(1, regs, mem, in, d)
      [] name = "SUB" -> arithmetic_effect(-1, regs, mem, in, d)
      [] name = "J" -> jump_effect(TRUE, regs, mem, in, d)
      [] name = "JEQ" -> jump_effect(UInt24_to_int(regs["SW"]) = 0, regs, mem, in, d)
      [] name = "JLT" -> jump_effect(UInt24_to_int(regs["SW"]) = 1, regs, mem, in, d)
      [] name = "JGT" -> jump_effect(UInt24_to_int(regs["SW"]) = 2, regs, mem, in, d)
      [] name = "JSUB" -> jsub_effect(regs, mem, in, d)
      [] name = "RSUB" -> rsub_effect(regs, mem, in)
      [] name = "RD" -> rd_effect(regs, mem, in)
      [] name = "WD" -> wd_effect(regs, mem, in)
      [] name = "HLT" -> halt_effect(regs, mem, in)
      [] name = "NOP" -> EffectResult("ok", regs, mem, <<>>, in)

(***************************************************************************)
(* sim/__main__.py: the run loop                                           *)
(***************************************************************************)
RegisterNames == {"A", "X", "L", "PC", "SW", "S"}

\* a table in which a byte that is no opcode stands for NOP
code_lut_get_nop(opcode) ==
    IF opcode \in 0..(Len(OpcodeNames) - 1) THEN OpcodeNames[opcode + 1] ELSE "NOP"

\* code_lut.get(opcode): the name of the entry, "none" for None
code_lut_get(opcode) ==
    IF opcode \in 0..(Len(OpcodeNames) - 1) THEN OpcodeNames[opcode + 1] ELSE "none"

\* registers[Registers.PC].to_int()
PCValue(regs) == UInt24_to_int(regs["PC"])

\* One iteration of the run loop: fetch, decode, look up, advance the program
\* counter, execute.  SICFormatObjectCode.from_buffer raises on a slice of
\* less than 3 bytes; an unknown opcode is reported and ends the loop; the
\* KeyboardInterrupt of HLT is caught and ends the loop; any other exception
\* of an effect ends main.
RunStep ==
    /\ spc = "running"
    /\ UNCHANGED <<asmVars, codecVars>>
    /\ UNCHANGED <<image, data, header_record, end_record, exec_address,
                   terminal_address, start_location, lpc, bases, loads>>
    /\ LET raw_pc == PCValue(registers)
           instruction == MemSlice(memory, raw_pc, raw_pc + 3)
       IN IF Len(instruction) < 3
          THEN spc' = "crashed" /\ UNCHANGED <<memory, console, registers, stdin>>
          ELSE LET decoded_instruction ==
                       [tag |-> "code", opcode |-> instruction[1],
                        ia |-> instruction[2] + 256 * instruction[3]]
                   decoded_address ==
                       SIC_address(decoded_instruction)
                         + (IF SIC_indexed(decoded_instruction)
                            THEN UInt24_to_int(registers["X"]) ELSE 0)
                   op == code_lut_get(decoded_instruction.opcode)
               IN IF op = "none"
                  THEN spc' = "unknown" /\ UNCHANGED <<memory, console, registers, stdin>>
                  ELSE IF ~UInt24_from_int_ok(raw_pc + 3)
                  THEN spc' = "crashed" /\ UNCHANGED <<memory, console, registers, stdin>>
                  ELSE LET e == Effect(op,
                                       [registers EXCEPT !["PC"] = UInt24_from_int(raw_pc + 3)],
                                       memory, stdin, decoded_address)
                       IN /\ registers' = e.regs
                          /\ memory' = e.mem
                          /\ console' = console \o e.out
                          /\ stdin' = e.in
                          /\ spc' = CASE e.kind = "ok" -> "running"
                                      [] e.kind = "halt" -> "halted"
                                      [] e.kind = "error" -> "crashed"

\* the instruction word of an opcode and an address
Word(name, address) == SICFormatObjectCode_create(OpcodeOf(name), address, FALSE)

\* the instruction word of an indexed instruction
WordX(name, address) == SICFormatObjectCode_create(OpcodeOf(name), address, TRUE)

\* raw bytes in a program
Raw(b) == [tag |-> "bytes", data |-> b]

\* where the programs of the run loop lie: behind the bootstrap program
RunOrigin == Len(bootstrap_program)

\* Programs for the run loop, as the items behind a Text record; the first
\* item lies at RunOrigin and is the entry.
\*   the program of src/test.py
StarProgram ==
    <<Word("LDCH", RunOrigin + 15), Word("WD", 0), Word("LDCH", RunOrigin + 16),
      Word("WD", 0), Word("RSUB", 0), Raw(<<42>>), Raw(<<10>>)>>

\*   a program that runs off its end
NopProgram == <<Word("NOP", 0)>>

\*   bytes that are no opcode
UnknownProgram == <<Word("LDX", RunOrigin + 6), Raw(<<24, 1, 2>>), Raw(<<0, 0, 5>>)>>

UnknownFirstProgram == <<Raw(<<255, 255, 255>>)>>

\*   a counting loop: X runs to 3, then X is stored
CountProgram ==
    <<Word("TIX", RunOrigin + 12), Word("JLT", RunOrigin), Word("STX", RunOrigin + 15),
      Word("HLT", 0), Raw(<<0, 0, 3>>), Raw(<<0, 0, 0>>)>>

\*   arithmetic and comparison, with a subroutine
SumProgram ==
    <<Word("LDA", RunOrigin + 27), Word("ADD", RunOrigin + 30), Word("SUB", RunOrigin + 33),
      Word("COMP", RunOrigin + 27), Word("JGT", RunOrigin + 21), Word("JEQ", RunOrigin + 24),
      Word("STA", RunOrigin + 33), Word("HLT", 0), Word("RSUB", 0),
      Raw(<<0, 0, 7>>), Raw(<<0, 1, 0>>), Raw(<<255, 255, 255>>)>>

\*   the characters of the input are written back until the input is used up
EchoProgram == <<Word("RD", 0), Word("WD", 0), Word("J", RunOrigin)>>

\*   a store of the lowest byte
StoreCharProgram == <<Word("LDCH", RunOrigin + 9), Word("STCH", RunOrigin + 10),
                      Word("HLT", 0), Raw(<<65, 0>>)>>

\*   indexed addressing, S and L, and a byte that is not UTF-8
IndexedProgram ==
    <<Word("LDX", RunOrigin + 24), WordX("LDS", RunOrigin + 24), Word("STS", RunOrigin + 30),
      Word("LDL", RunOrigin + 27), Word("STL", RunOrigin + 24), WordX("LDA", RunOrigin + 24),
      Word("WD", 0), Word("HLT", 0),
      Raw(<<0, 0, 3>>), Raw(<<0, 0, 200>>), Raw(<<9, 9, 9>>)>>

\*   a jump out of the memory
FarProgram == <<Word("LDX", RunOrigin + 6), WordX("J", 32767), Raw(<<255, 255, 255>>)>>

\*   an accumulator with the highest bit set, compared and added to
NegProgram == <<Word("LDA", RunOrigin + 12), Word("COMP", RunOrigin + 15),
                Word("ADD", RunOrigin + 15), Word("HLT", 0),
                Raw(<<255, 255, 255>>), Raw(<<0, 0, 1>>)>>

\*   the three conditional jumps, each taken and not taken
CompareProgram ==
    <<Word("LDA", RunOrigin + 33), Word("COMP", RunOrigin + 33), Word("JLT", RunOrigin + 30),
      Word("JGT", RunOrigin + 30), Word("JEQ", RunOrigin + 18), Raw(<<255, 255, 255>>),
      Word("COMP", RunOrigin + 36), Word("JEQ", RunOrigin + 30), Word("JLT", RunOrigin + 30),
      Raw(<<255, 255, 255>>), Word("HLT", 0), Raw(<<0, 0, 5>>), Raw(<<0, 0, 9>>)>>

\*   an indexed jump, and an indexed call with its return
IndexedJumpProgram ==
    <<Word("LDX", RunOrigin + 27), WordX("J", RunOrigin + 9), Raw(<<255, 255, 255>>),
      Raw(<<255, 255, 255>>), WordX("JSUB", RunOrigin + 18), Word("HLT", 0),
      Raw(<<255, 255, 255>>), Word("LDA", RunOrigin + 27), Word("RSUB", 0),
      Raw(<<0, 0, 3>>)>>

RunPrograms == {StarProgram, NopProgram, UnknownProgram, UnknownFirstProgram,
                CountProgram, SumProgram, EchoProgram, StoreCharProgram,
                IndexedProgram, FarProgram, NegProgram, CompareProgram,
                IndexedJumpProgram}

\* the inputs on the standard input
StdinPool == {<<>>, <<65>>, <<65, 10>>}

\* the memory at the entry of the run loop: the bootstrap program with the
\* execution address in its JSUB, and the program behind it
RunMemory(items) ==
    LET boot == Serialize(<<Word("JSUB", RunOrigin), Word("HLT", 0)>>)
        m == WriteSlice(<<>>, 0, Len(boot), boot).mem
    IN WriteSlice(m, RunOrigin, RunOrigin + Len(Serialize(items)), Serialize(items)).mem

\* The run loop on its own: the state in which main enters it, with every
\* register 0, over a memory that holds the bootstrap program and a program
\* whose terminal address the loader has reported.
InitRun ==
    /\ \E items \in RunPrograms :
         /\ memory = RunMemory(items)
         /\ terminal_address = RunOrigin + Len(Serialize(items))
    /\ stdin \in StdinPool
    /\ registers = [r \in RegisterNames |-> UInt24_from_int(0)]
    /\ console = <<>>
    /\ spc = "running"
    /\ exec_address = RunOrigin
    /\ start_location = RunOrigin
    /\ image = <<>> /\ data = <<>> /\ header_record = <<>> /\ end_record = <<>>
    /\ lpc = "idle" /\ bases = <<>> /\ loads = <<>>
    /\ IdleAsm /\ IdleCodec

NextRun == RunStep

SpecRun == InitRun /\ [][NextRun]_vars

(***************************************************************************)
(* Properties of the run loop                                              *)
(***************************************************************************)
\* C15: an iteration of the run loop that executes HLT ends the loop, and an
\* iteration that leaves the program counter 3 behind where it was, at or
\* behind the terminal address, ends the loop as well, so that nothing is
\* fetched there.
C15_StopsAtTerminal ==
    [][spc = "running" =>
          /\ (Len(MemSlice(memory, PCValue(registers), PCValue(registers) + 3)) = 3
              /\ ByteAt(memory, PCValue(registers)) = OpcodeOf("HLT")) => spc' = "halted"
          /\ (PCValue(registers') = PCValue(registers) + 3
              /\ PCValue(registers') >= terminal_address) => spc' # "running"]_vars

\* C16: an iteration of the run loop that fetches a byte that is no opcode
\* ends the loop with the report of the unknown opcode and changes no
\* register, no byte of the memory, nothing on the console and nothing of
\* the input.
C16_UnknownOpcode ==
    [][(/\ spc = "running"
        /\ Len(MemSlice(memory, PCValue(registers), PCValue(registers) + 3)) = 3
        /\ ByteAt(memory, PCValue(registers)) \notin 0..23) =>
          /\ spc' = "unknown"
          /\ registers' = registers
          /\ memory' = memory
          /\ console' = console
          /\ stdin' = stdin]_vars

\* the loop has ended on a byte that is no opcode, after it had executed
\* instructions of the program
C16_Witness ==
    /\ spc = "unknown"
    /\ ByteAt(memory, PCValue(registers)) = 24
    /\ PCValue(registers) > RunOrigin
    /\ UInt24_to_int(registers["X"]) = 5

\* C20: when load_program has returned to the simulator, the execution
\* address it has returned is the address of the memory at which it has put
\* the byte of the program's execution address, start_location +
\* End.exec_address, and the simulator goes on to run the program from there.
C20_ExecAddressConvention ==
    (spc # "off" /\ lpc = "done") =>
        /\ exec_address = start_location + UInt24_to_int(end_record.exec_address)
        /\ spc # "crashed"

(***************************************************************************)
(* Layout: programs that differ in the sizes and the order of their lines  *)
(***************************************************************************)
tRESW == <<"R","E","S","W">>

\* lines of 1, 3, 27, 28 and 30 bytes, and reservations
LayoutPool == {tRSUB,
               Join(<<tBYTE, <<"0","x","4","1">> >>),
               Join(<<tBYTE, <<"c","'">> \o Repeat("A", 27) \o <<"'">> >>),
               Join(<<tBYTE, <<"c","'">> \o Repeat("A", 28) \o <<"'">> >>),
               Join(<<tBYTE, <<"c","'">> \o Repeat("A", 30) \o <<"'">> >>),
               Join(<<tLOOP, tWORD, <<"5">> >>),
               Join(<<tRESB, <<"2">> >>),
               Join(<<tRESW, <<"2">> >>)}

\* lines of which programs of any structure are made
StructPool == {Join(<<tTEST, tSTART, t1000>>), tRSUB, tEND, Join(<<tRESB, <<"2">> >>)}

\* START line, body, END line; and any lines at all
LayoutPrograms ==
    {<<Join(<<tTEST, tSTART, t1000>>)>> \o b \o <<tEND>> : b \in SeqsUpTo(LayoutPool, MaxBody)}
    \cup SeqsUpTo(StructPool, MaxBody + 1)

InitLayout ==
    /\ src \in LayoutPrograms
    /\ AsmStart
    /\ IdleCodec /\ IdleLoad /\ IdleSim

NextLayout == Pass1Line \/ Pass1Return \/ CreateHeader \/ EmitTextGroup \/ FinishObjectProgram

SpecLayout == InitLayout /\ [][NextLayout]_vars

\* the number of bytes of an instruction that has object code
CodeSize(ins) == IF ins.instruction_name = tBYTE THEN Len(ins.parsed_ctx.value) ELSE 3

\* a RESB or a RESW lies between the positions a and b
ReserveBetween(ins, a, b) ==
    \E r \in (a + 1)..(b - 1) : ins[r].instruction_name \in {tRESB, tRESW}

RECURSIVE OpensRecord(_, _)
RECURSIVE RunBytes(_, _)
\* the k-th instruction with object code begins a Text record: it is the
\* first one, the first one behind a reservation, or the one whose bytes
\* would bring the record above 30 bytes
OpensRecord(ins, k) ==
    LET idx == EmittingIdx(ins)
    IN \/ k = 1
       \/ ReserveBetween(ins, idx[k - 1], idx[k])
       \/ RunBytes(ins, k - 1) + CodeSize(ins[idx[k]]) > 30

\* the bytes of the record of the k-th instruction with object code, up to
\* and with that instruction
RunBytes(ins, k) ==
    LET idx == EmittingIdx(ins)
    IN IF OpensRecord(ins, k) THEN CodeSize(ins[idx[k]])
       ELSE RunBytes(ins, k - 1) + CodeSize(ins[idx[k]])

\* the Text records of an object program, in order
TextsOf(rs) == SelectSeq(rs, LAMBDA r : r.tag = "T")

\* C21: in an accepted program a Text record begins at the first instruction
\* with object code, at the first one behind a RESB or RESW, and at one whose
\* bytes would bring the record above 30 bytes, and nowhere else; the record
\* holds the location of its first instruction and the sum of the sizes of
\* its instructions, and its payload is the bytes of those instructions in
\* source order.
C21_TextRecordGrouping ==
    pc = "done" =>
        LET idx == EmittingIdx(instructions)
            items == PayloadItems(returned)
            grp == GroupOfItems(returned, 1, 0)
            texts == TextsOf(returned)
        IN /\ Len(items) = Len(idx)
           /\ Len(texts) = Cardinality({k \in DOMAIN idx : OpensRecord(instructions, k)})
           /\ \A k \in DOMAIN idx :
                LET ins == instructions[idx[k]]
                IN /\ grp[k] = (IF k = 1 THEN 0 ELSE grp[k - 1])
                                 + (IF OpensRecord(instructions, k) THEN 1 ELSE 0)
                   /\ OpensRecord(instructions, k) =>
                        UInt24_to_int(texts[grp[k]].starting_address) = ins.location
                   /\ (k = Len(idx) \/ OpensRecord(instructions, k + 1)) =>
                        texts[grp[k]].length = RunBytes(instructions, k)
                   /\ Len(ItemBytes(items[k])) = CodeSize(ins)
                   /\ IF ins.instruction_name \in {tBYTE, tWORD}
                      THEN ItemBytes(items[k]) = ins.parsed_ctx.value
                      ELSE ItemBytes(items[k])[1] = OpcodeOf(ins.op.name)

\* an accepted program in which a record was filled to 30 bytes by two
\* instructions and the next instruction began a new record
C21_Witness ==
    /\ pc = "done"
    /\ \E k \in DOMAIN EmittingIdx(instructions) :
         /\ k > 2
         /\ EmittingIdx(instructions)[k] = EmittingIdx(instructions)[k - 1] + 1
         /\ ~OpensRecord(instructions, k - 1)
         /\ RunBytes(instructions, k - 1) = 30
    /\ Len(TextsOf(returned)) = 2

\* the size the location pass gives an instruction, from its name and the
\* text of its operand
StepSize(ins) ==
    CASE ins.instruction_name = tBYTE ->
           IF StartsWith(ins.operand, <<"0", "x">>) THEN 1 ELSE Len(ins.operand) - 3
      [] ins.instruction_name = tRESB -> IntVal(ins.operand)
      [] ins.instruction_name = tRESW -> 3 * IntVal(ins.operand)
      [] ins.instruction_name \in {tSTART, tEND} -> 0
      [] OTHER -> 3

\* C22: an instruction of the location pass gets the value of the location
\* counter before it; START then sets the counter and the starting address
\* to its operand, any other instruction adds its size to the counter (3 for
\* an opcode or WORD, the byte length of the operand for BYTE, N for RESB N,
\* 3 * N for RESW N, 0 for END); the symbol-table entry of its label is its
\* location.
C22_LocationPass ==
    [][(pc = "pass1" /\ Len(instructions') = Len(instructions) + 1) =>
          LET ins == instructions'[Len(instructions')]
          IN /\ ins.location = locctr
             /\ IF ins.instruction_name = tSTART
                THEN /\ locctr' = HexSeqVal(ins.operand)
                     /\ starting_addr' = HexSeqVal(ins.operand)
                ELSE /\ locctr' = locctr + StepSize(ins)
                     /\ starting_addr' = starting_addr
             /\ ins.label # None =>
                  /\ ins.label \in DOMAIN symtab'
                  /\ symtab'[ins.label] = ins.location]_vars

\* the location pass has given a label the location behind a RESW 2 and a
\* BYTE of 27 characters
C22_Witness ==
    /\ Len(instructions) = 4
    /\ instructions[2].instruction_name = tRESW
    /\ instructions[3].instruction_name = tBYTE
    /\ instructions[4].label = tLOOP
    /\ symtab[tLOOP] = 4096 + 6 + 27
    /\ locctr = 4096 + 6 + 27 + 3

(***************************************************************************)
(* Properties of the symbol table: labels defined more than once           *)
(***************************************************************************)
\* the lines consumed so far that carry the label
DefiningLines(label) == {k \in 1..ln : LineLabel(tokenize(src[k]).tokens) = label}

\* the label was defined on more than one of the lines consumed so far
DefinedTwice(label) == Cardinality(DefiningLines(label)) > 1

\* the location of the last instruction that carries the label
LastLocation(label) ==
    LET carriers == {j \in DOMAIN instructions : instructions[j].label = label}
    IN instructions[CHOOSE j \in carriers : \A i \in carriers : i <= j].location

\* C23: a line that repeats an earlier line with its label is accepted as
\* the earlier line was; a label defined more than once stands in the symbol
\* table with the location of the last instruction that carries it, and in
\* an accepted program every reference to it, before or behind either
\* definition, is encoded with that location.
C23_DuplicateLabel ==
    /\ \A j, k \in 1..ln :
         (j < k /\ src[j] = src[k] /\ LineLabel(tokenize(src[k]).tokens) # None) =>
             /\ Len(instructions) >= k
             /\ instructions[k].label = instructions[j].label
    /\ \A label \in DOMAIN symtab :
         DefinedTwice(label) => symtab[label] = LastLocation(label)
    /\ pc = "done" =>
         LET idx == EmittingIdx(instructions)
             items == PayloadItems(returned)
         IN \A k \in DOMAIN idx :
              LET ins == instructions[idx[k]]
              IN (ins.op.kind = "opcode" /\ ins.operand # None
                  /\ DefinedTwice(OperandSymbol(ins.operand))) =>
                     items[k] = SICFormatObjectCode_create(
                                    OpcodeOf(ins.op.name),
                                    LastLocation(OperandSymbol(ins.operand)),
                                    EndsWith(ins.operand, <<",", "X">>))

\* an accepted program with a reference between two definitions of a label
\* that lie at different locations
C23_Witness ==
    /\ pc = "done"
    /\ \E i, j, k \in DOMAIN instructions :
         /\ i < j /\ j < k
         /\ instructions[i].label = tLOOP
         /\ instructions[k].label = tLOOP
         /\ instructions[j].operand = tLOOP
         /\ instructions[i].location < instructions[k].location

(***************************************************************************)
(* Properties of the structure of a program                                *)
(***************************************************************************)
\* at least 3 instructions, START first and END last
Framed(ins) ==
    /\ Len(ins) >= 3
    /\ ins[1].instruction_name = tSTART
    /\ ins[Len(ins)].instruction_name = tEND

\* a START or an END between the first and the last instruction
InnerFrame(ins) ==
    \E i \in 2..(Len(ins) - 1) : ins[i].instruction_name \in {tSTART, tEND}

\* C24: the emission gets past its first checks only with at least 3
\* instructions, START first and END last; a program is accepted only if, in
\* addition, no START and no END lies between them; nothing is returned
\* unless the program is accepted.
C24_ProgramFrame ==
    /\ pc \in {"text", "done"} => Framed(instructions)
    /\ object_program # <<>> => Framed(instructions)
    /\ pc = "done" => ~InnerFrame(instructions)
    /\ returned # <<>> => pc = "done"
    /\ (pc \notin {"pass1", "pass2"} /\ (~Framed(instructions) \/ InnerFrame(instructions)))
         => (pc # "done" /\ returned = <<>>)

\* the emission of a program with START first and END last has failed on a
\* START between them, after the Header record was created
C24_Witness ==
    /\ pc = "error"
    /\ Framed(instructions)
    /\ Len(instructions) = 4
    /\ instructions[3].instruction_name = tSTART
    /\ Len(object_program) = 1

(***************************************************************************)
(* Properties of the loader: Text records                                  *)
(***************************************************************************)
\* C25: when the loader has processed a Text record with start s and length
\* n behind a Header record, the n bytes that follow the record in the stream
\* are the bytes of the memory at base + s .. base + s + n - 1, and the loader
\* goes on with the byte behind those n bytes.
C25_TextIntoMemory ==
    [][(/\ lpc = "load" /\ header_record # None /\ end_record = None
        /\ ~parse_record(data).err
        /\ parse_record(data).record.tag = "T"
        /\ Len(parse_record(data).rest) >= parse_record(data).record.length
        /\ lpc' = "load") =>
          LET r == parse_record(data)
              n == r.record.length
              a == start_location + UInt24_to_int(r.record.starting_address)
          IN /\ data' = SubSeq(r.rest, n + 1, Len(r.rest))
             /\ \A i \in 1..n :
                  /\ a + i - 1 \in DOMAIN memory'
                  /\ a + i - 1 < MemorySize
                  /\ memory'[a + i - 1] = r.rest[i]]_vars

(***************************************************************************)
(* Properties of the instructions                                          *)
(***************************************************************************)
\* the run loop is about to fetch three bytes whose first is the opcode of
\* the named instruction
Fetches(name) ==
    /\ spc = "running"
    /\ PCValue(registers) + 3 <= MemorySize
    /\ ByteAt(memory, PCValue(registers)) = OpcodeOf(name)

\* the 16 bits behind the opcode byte, the lower byte first
FetchedField == ByteAt(memory, PCValue(registers) + 1)
                  + 256 * ByteAt(memory, PCValue(registers) + 2)

\* the effective address of the instruction about to be fetched: the lower
\* 15 bits of the field, plus the index register when the highest bit is set
EffectiveAddress ==
    (FetchedField % 32768)
      + (IF FetchedField >= 32768 THEN UInt24_to_int(registers["X"]) ELSE 0)

\* the value of a register
RegValue(regs, r) == regs[r][1] * 65536 + regs[r][2] * 256 + regs[r][3]

\* the three bytes of the memory at an address, as a number; -1 when they
\* do not all lie in the memory
WordAt(m, a) ==
    IF a + 3 <= MemorySize
    THEN ByteAt(m, a) * 65536 + ByteAt(m, a + 1) * 256 + ByteAt(m, a + 2)
    ELSE -1

\* the registers other than those of the set keep their values
OthersKept(changed) == \A r \in RegisterNames \ changed : registers'[r] = registers[r]

\* C26: JSUB at address p with the effective address t (an address of 24
\* bits) sets L to p + 3 and the program counter to t; RSUB sets the program
\* counter to the value of L and leaves L as it is, so that a JSUB and a
\* later RSUB with the same L resume at p + 3.
C26_Subroutine ==
    [][/\ (Fetches("JSUB") /\ EffectiveAddress <= 16777215) =>
            /\ spc' = "running"
            /\ RegValue(registers', "L") = PCValue(registers) + 3
            /\ RegValue(registers', "PC") = EffectiveAddress
            /\ OthersKept({"L", "PC"})
            /\ memory' = memory
       /\ Fetches("RSUB") =>
            /\ spc' = "running"
            /\ RegValue(registers', "PC") = RegValue(registers, "L")
            /\ OthersKept({"PC"})
            /\ memory' = memory]_vars

\* the subroutine of the indexed call has loaded A and has returned to the
\* instruction behind the call
C26_Witness ==
    /\ spc = "running"
    /\ PCValue(registers) = RunOrigin + 15
    /\ RegValue(registers, "L") = RunOrigin + 15
    /\ RegValue(registers, "A") = 3
    /\ RegValue(registers, "X") = 3

\* 0, 1 or 2 for a register value equal to, less than or greater than a word
Compared(r, w) == IF r = w THEN 0 ELSE IF r < w THEN 1 ELSE 2

\* what a conditional jump does for the value of SW it waits for
JumpsWhen(name, sw) ==
    Fetches(name) =>
        /\ (RegValue(registers, "SW") = sw /\ EffectiveAddress <= 16777215) =>
               /\ spc' = "running"
               /\ RegValue(registers', "PC") = EffectiveAddress
        /\ RegValue(registers, "SW") # sw =>
               /\ spc' = "running"
               /\ RegValue(registers', "PC") = PCValue(registers) + 3
        /\ OthersKept({"PC"})
        /\ memory' = memory

\* C27: the status register holds 0, 1 or 2 in every state of the simulator;
\* COMP sets it to 0, 1 or 2 for A equal to, less than or greater than the
\* word at the effective address, TIX does so for the incremented X (the
\* values taken as numbers of 24 bits without a sign); JEQ, JLT and JGT set
\* the program counter to the effective address when the status register is
\* 0, 1 and 2, and otherwise the next instruction follows.
C27_StatusRegister ==
    /\ [](spc # "off" => RegValue(registers, "SW") \in {0, 1, 2})
    /\ [][/\ (Fetches("COMP") /\ WordAt(memory, EffectiveAddress) >= 0) =>
               /\ spc' = "running"
               /\ RegValue(registers', "SW")
                    = Compared(RegValue(registers, "A"), WordAt(memory, EffectiveAddress))
               /\ OthersKept({"SW", "PC"})
          /\ (Fetches("TIX") /\ WordAt(memory, EffectiveAddress) >= 0
              /\ RegValue(registers, "X") < 16777215) =>
               /\ spc' = "running"
               /\ RegValue(registers', "X") = RegValue(registers, "X") + 1
               /\ RegValue(registers', "SW")
                    = Compared(RegValue(registers, "X") + 1,
                               WordAt(memory, EffectiveAddress))
               /\ OthersKept({"X", "SW", "PC"})
          /\ JumpsWhen("JEQ", 0)
          /\ JumpsWhen("JLT", 1)
          /\ JumpsWhen("JGT", 2)]_vars

\* the program of the conditional jumps has halted: JEQ was taken on an
\* equal comparison and JLT on a lesser one, and the jumps between them were
\* not taken
C27_Witness ==
    /\ spc = "halted"
    /\ PCValue(registers) = RunOrigin + 33
    /\ RegValue(registers, "SW") = 1
    /\ RegValue(registers, "A") = 5

\* a number of 24 bits read as a two's-complement number
Signed24(v) == IF v >= 8388608 THEN v - 16777216 ELSE v

\* the two's-complement encoding of a number in 24 bits
Encoded24(v) == IF v < 0 THEN v + 16777216 ELSE v

\* what ADD (sign = 1) and SUB (sign = -1) are to do when the result fits
Arithmetic(name, sign) ==
    (/\ Fetches(name)
     /\ WordAt(memory, EffectiveAddress) >= 0
     /\ Signed24(RegValue(registers, "A"))
          + sign * Signed24(WordAt(memory, EffectiveAddress)) \in -8388608..8388607) =>
        /\ spc' = "running"
        /\ RegValue(registers', "A")
             = Encoded24(Signed24(RegValue(registers, "A"))
                         + sign * Signed24(WordAt(memory, EffectiveAddress)))
        /\ OthersKept({"A", "PC"})
        /\ memory' = memory

\* C28: ADD and SUB, for an accumulator and a memory word whose signed sum or
\* difference lies in [-8388608, 8388607], do not abort the run and leave the
\* two's-complement encoding of the result in A, with the memory and all
\* registers other than A and PC unchanged.
C28_SignedArithmetic ==
    [][Arithmetic("ADD", 1) /\ Arithmetic("SUB", -1)]_vars

\* C29: STCH writes the low byte of A to the one memory byte at the effective
\* address, leaves every other memory byte and every register except PC
\* unchanged, and execution continues; LDCH sets A to the byte at the
\* effective address with its upper two bytes zero.
C29_StoreCharacter ==
    [][/\ (Fetches("STCH") /\ EffectiveAddress < MemorySize) =>
            /\ spc' = "running"
            /\ memory' = [memory EXCEPT ![EffectiveAddress] = registers["A"][3]]
            /\ OthersKept({"PC"})
       /\ (Fetches("LDCH") /\ EffectiveAddress < MemorySize) =>
            /\ spc' = "running"
            /\ registers'["A"] = <<0, 0, ByteAt(memory, EffectiveAddress)>>
            /\ OthersKept({"A", "PC"})
            /\ memory' = memory]_vars

\* the instruction that is fetched is one of a set of names
FetchesOneOf(names) == \E name \in names : Fetches(name)

\* the fetched instruction is a jump that is taken
TakenJump ==
    \/ Fetches("J")
    \/ Fetches("JSUB")
    \/ Fetches("JEQ") /\ RegValue(registers, "SW") = 0
    \/ Fetches("JLT") /\ RegValue(registers, "SW") = 1
    \/ Fetches("JGT") /\ RegValue(registers, "SW") = 2

\* the names of the entries of the opcode table, written out
InstructionNames ==
    {"LDA", "LDCH", "LDX", "LDL", "LDS", "STA", "STCH", "STX", "STL", "STS",
     "COMP", "TIX", "ADD", "SUB", "J", "JEQ", "JLT", "JGT", "JSUB", "RSUB",
     "RD", "WD", "HLT"}

PiecePool ==
    {RecordBytes(HeaderRecord_create(nAB, 0, 5)),
     RecordBytes(TextRecord_create(0, 2)),
     RecordBytes(TextRecord_create(3, 200)),
     RecordBytes(EndRecord_create(0)),
     RecordBytes(ModificationRecord_create(1, 2)),
     <<1, 2>>,
     <<2, 0, 0>>,
     <<4>>}

RECURSIVE Concat(_)
Concat(pieces) == IF pieces = <<>> THEN <<>> ELSE Head(pieces) \o Concat(Tail(pieces))

ByteStreams == {Concat(ps) : ps \in SeqsUpTo(PiecePool, MaxRecords + 1)}

\* program_iter is called on the bytes of a file that anything may have
\* written
InitStream ==
    /\ image \in ByteStreams
    /\ buffer = image
    /\ units = <<>>
    /\ yielded = <<>>
    /\ cpc = "iter"
    /\ memory = <<>> /\ data = <<>>
    /\ header_record = <<>> /\ end_record = <<>>
    /\ exec_address = 0 /\ terminal_address = 0 /\ start_location = 0
    /\ lpc = "idle" /\ bases = <<>> /\ loads = <<>>
    /\ IdleAsm /\ IdleSim

NextStream == IterNext

\* the consumer's for loop asks for the next record until the iteration ends
SpecStream == InitStream /\ [][NextStream]_vars /\ WF_vars(IterNext)

\* the fixed size of the record that begins with an ID byte
FixedSize(id) == CASE id = 0 -> 13 [] id = 1 -> 5 [] id = 2 -> 4 [] id = 3 -> 5

\* the stream behind offset at begins with a whole record
RecordAt(s, at) ==
    /\ at < Len(s)
    /\ s[at + 1] \in 0..3
    /\ at + FixedSize(s[at + 1]) <= Len(s)

\* the bytes of data a record at an offset declares: the fifth byte of a Text
\* record, and none for the other records
Declared(s, at) == IF s[at + 1] = 1 THEN s[at + 5] ELSE 0

\* the offsets of the records of a stream, from an offset on
RECURSIVE RecordOffsets(_, _)
RecordOffsets(s, at) ==
    IF ~RecordAt(s, at) THEN <<>>
    ELSE <<at>> \o RecordOffsets(s, at + FixedSize(s[at + 1]) + Declared(s, at))

\* the i-th record that was yielded is the record at offset at of the stream
YieldedAt(i, at) ==
    /\ yielded[i].rec.tag = RecordTags[image[at + 1] + 1]
    /\ RecordBytes(yielded[i].rec) = SubSeq(image, at + 1, at + FixedSize(image[at + 1]))
    /\ yielded[i].data = SubSeq(image, at + FixedSize(image[at + 1]) + 1,
                                Min(Len(image),
                                    at + FixedSize(image[at + 1]) + Declared(image, at)))

\* C31: on every finite stream of bytes the iteration ends, and no exception
\* leaves it; what it has yielded are the records of the stream in their
\* order, the declared data of a Text record being stepped over and never
\* taken as a record; when it has ended, it has yielded all of them, and what
\* is left of the stream is empty, begins with a byte that is no record ID, or
\* is shorter than the record its first byte names.
C31_IterationEnds ==
    /\ <>(cpc = "done")
    /\ [](cpc \in {"iter", "done"})
    /\ [](LET offsets == RecordOffsets(image, 0)
          IN /\ Len(yielded) <= Len(offsets)
             /\ \A i \in DOMAIN yielded : YieldedAt(i, offsets[i])
             /\ cpc = "done" =>
                  /\ Len(yielded) = Len(offsets)
                  /\ ~RecordAt(buffer, 0))

\* an iteration has ended behind a Text record whose two bytes of data begin
\* with the ID of a Text record, with a record yielded behind them and a cut
\* record left
C31_Witness ==
    /\ cpc = "done"
    /\ Len(yielded) = 2
    /\ yielded[1].rec.tag = "T"
    /\ yielded[1].data = <<1, 2>>
    /\ yielded[2].rec.tag = "E"
    /\ buffer = <<2, 0, 0>>

(***************************************************************************)
(* The address ranges of the Text records                                  *)
(***************************************************************************)
\* the positions of the Text records of an object program
TextPositions(program) == {i \in DOMAIN program : program[i].tag = "T"}

\* the first address of a Text record and the first address behind it
RangeStart(rec) == UInt24_to_int(rec.starting_address)

RangeEnd(rec) == UInt24_to_int(rec.starting_address) + rec.length

\* C32: in every object program the assembler returns, the Text records are
\* in strictly increasing order of their start addresses, their address
\* ranges [start, start + length) are pairwise disjoint, and every range lies
\* in [Header.start, Header.start + Header.length); the locations of the
\* lines behind START never decrease.
C32_TextRecordRanges ==
    pc = "done" =>
        /\ \A i, j \in TextPositions(returned) :
             i < j => /\ RangeStart(returned[i]) < RangeStart(returned[j])
                      /\ RangeEnd(returned[i]) <= RangeStart(returned[j])
        /\ \A i \in TextPositions(returned) :
             /\ UInt24_to_int(returned[1].starting_address) <= RangeStart(returned[i])
             /\ RangeEnd(returned[i])
                  <= UInt24_to_int(returned[1].starting_address)
                     + UInt24_to_int(returned[1].program_length)
        /\ \A k \in 2..(Len(instructions) - 1) :
             instructions[k].location <= instructions[k + 1].location

(***************************************************************************)
(* The instruction word, decoded from its bytes                            *)
(***************************************************************************)
\* the 16 bits behind the opcode byte of a written instruction word
WrittenField(item) == ItemBytes(item)[2] + 256 * ItemBytes(item)[3]

\* C33: for every opcode instruction with a symbol operand in an accepted
\* program, the instruction word that is written decodes to indexed = true
\* exactly when the operand ended in ,X and to an address field equal to the
\* address of the symbol in the symbol table, for every address a program
\* with a START operand in 0000-FFFF produces, those of 0x8000 and above
\* included.
C33_InstructionWord ==
    pc = "done" =>
        LET idx == EmittingIdx(instructions)
            items == PayloadItems(returned)
        IN \A k \in DOMAIN idx :
             LET ins == instructions[idx[k]]
             IN (ins.op.kind = "opcode" /\ ins.operand # None) =>
                  /\ (WrittenField(items[k]) >= 32768)
                       <=> EndsWith(ins.operand, <<",", "X">>)
                  /\ WrittenField(items[k]) % 32768
                       = symtab[OperandSymbol(ins.operand)]

(***************************************************************************)
(* The memory a load writes                                                *)
(***************************************************************************)
\* the first address of the loaded program: the base plus Header.start
LoadedFrom == start_location + UInt24_to_int(header_record.starting_address)

\* the terminal address: the base plus Header.start plus Header.length
LoadedUpTo ==
    start_location + UInt24_to_int(header_record.starting_address)
        + UInt24_to_int(header_record.program_length)

\* C34: when load_program has accepted a record stream at a base, into a
\* memory that nothing was written to before, every memory byte it has
\* written lies in [base + Header.start, terminal address), and that whole
\* range lies inside the memory.
C34_LoadStaysInRange ==
    (lpc = "done" /\ Len(loads) = 1) =>
        /\ \A x \in DOMAIN memory : LoadedFrom <= x /\ x < LoadedUpTo
        /\ loads[1].terminal_address = LoadedUpTo
        /\ 0 <= LoadedFrom
        /\ LoadedUpTo <= MemorySize

====
